---- MODULE Spec2Model ----
(***************************************************************************)
(* Vision Safe Ultima backend: the temporal smoother                       *)
(* (app/services/vision_safe_inference.py), the risk engine                *)
(* (app/services/risk_engine.py) and the service that drives them for the  *)
(* frames of the WebSocket connections (app/services/ml_service.py,        *)
(* main.py).                                                               *)
(*                                                                         *)
(* Numbers.  A confidence is a Python float in [0,1]; it is modelled in    *)
(* tenths (5 is 0.5).  An average sum(..)/len(..) is kept as the reduced   *)
(* fraction [num, den] of tenths, so that two averages are equal exactly   *)
(* when the quotients are.  A risk score is a float that only takes whole  *)
(* values (0.0, 10.0, .. 100.0); it is modelled by that whole number.      *)
(*                                                                         *)
(* Texts.  A risk factor is the sequence of the pieces of its text: the    *)
(* f-string f"Unsafe Zone: {h} Hazards detected" is                        *)
(* <<"Unsafe Zone: ", h, " Hazards detected">>.  The fire sign, the one     *)
(* character U+1F525 that opens the two fire factors, is a piece of its    *)
(* own, FireSign.                                                          *)
(***************************************************************************)
EXTENDS Integers, Sequences, FiniteSets, TLC

VARIABLES
    \* ---- TemporalSmoother instance under study
    window_size,            \* self.window_size
    confidence_threshold,   \* self.confidence_threshold (tenths)
    safe_history,           \* self.safe_history   (deque, oldest first)
    unsafe_history,         \* self.unsafe_history (deque, oldest first)
    returned,               \* the last call on the instance: its arguments and what it returned
    \* ---- a second TemporalSmoother, constructed later with the same
    \*      configuration and fed the same frames from then on
    fresh_safe_history,
    fresh_unsafe_history,
    fresh_returned,
    fresh_since,            \* when the second was constructed: "init" (with the first),
                            \* "reset" (at a reset() of the first), "late" (while the first held frames)
    \* ---- RiskEngine.evaluate: the arguments and result of the last call,
    \*      and the result of the call before it
    safe_result,
    unsafe_result,
    verdict,
    prev_verdict,
    \* ---- the service behind the WebSocket endpoint (main.py, ml_service.py)
    enable_smoothing,       \* inference_service.enable_smoothing
    conn_state,             \* each connection: "waiting", "open" or "ended"
    frame_count,            \* each connection's frame_count
    calls,                  \* the calls process_frame made for the last frame, in order
    response,               \* the last result sent, and the connection it was sent to
    \* ---- the profiles router (routers/profiles.py), for one user
    profiles,               \* the user's rows of the profiles table
    next_id,                \* how many profile ids uuid4 has handed out
    requests,               \* the requests of the user: handler, position, what it read, answer
    \* ---- two call sequences to smooth() side by side
    same_inputs,            \* the inputs the two sequences share: "safe", "unsafe" or "both"
    \* ---- a second input of evaluate, beside safe_result and unsafe_result
    varied,                 \* how it differs from them, the input, and its verdict
    \* ---- the calls made on the TemporalSmoother under study
    given,                  \* the arguments of its smooth() calls, oldest first
    \* ---- MLService and the receive loop of websocket_endpoint
    inference_service,      \* ml_service.inference_service: "ready", or "none" when __init__ failed
    initialization_error,   \* ml_service.initialization_error, a text (<<>> when there is none)
    frame_skip,             \* config.FRAME_SKIP
    frame_skip_counter,     \* each connection's frame_skip_counter
    frame_error_count,      \* each connection's frame_error_count
    valid_seen,             \* how many valid frames each connection has received
    alert_count,            \* how many alert tasks have been created
    last,                   \* the last process_frame call or loop iteration: its inputs and effects
    \* ---- alert e-mails (main.send_alert_email)
    mail_config,            \* config: EMAIL_RATE_LIMIT_SECONDS and ALERT_EMAIL_TO
    alerts_cfg,             \* ALERTS_CFG: enabled, to, last_sent
    persisted,              \* the row of alerts_config in the alerts database
    clock,                  \* the event loop's clock, in ticks
    sends,                  \* the ticks of the last two sends that returned True
    attempt                 \* the last send_alert_email call: its inputs, what it did and returned

smoother_vars == <<window_size, confidence_threshold, safe_history, unsafe_history,
                   returned, fresh_safe_history, fresh_unsafe_history,
                   fresh_returned, fresh_since>>
risk_vars == <<safe_result, unsafe_result, verdict, prev_verdict>>
stream_vars == <<enable_smoothing, conn_state, frame_count, calls, response>>
profile_vars == <<profiles, next_id, requests>>
channel_vars == <<same_inputs>>
compare_vars == <<varied>>
log_vars == <<given>>
endpoint_vars == <<inference_service, initialization_error, frame_skip, frame_skip_counter,
                   frame_error_count, valid_seen, alert_count, last>>
email_vars == <<mail_config, alerts_cfg, persisted, clock, sends, attempt>>
service_vars == <<profile_vars, channel_vars, compare_vars, log_vars, endpoint_vars,
                  email_vars>>
\* what the handlers of the profiles router leave alone
outside_profiles == <<channel_vars, compare_vars, log_vars, endpoint_vars, email_vars, smoother_vars, risk_vars, stream_vars>>
\* what two smoothers side by side leave alone
outside_channels == <<profile_vars, compare_vars, log_vars, endpoint_vars, email_vars, risk_vars, stream_vars>>
\* what evaluate on two inputs leaves alone
outside_compare == <<profile_vars, channel_vars, log_vars, endpoint_vars, email_vars, smoother_vars, stream_vars>>
\* what the logged calls of one smoother leave alone
outside_log == <<profile_vars, channel_vars, compare_vars, endpoint_vars, email_vars, risk_vars, stream_vars>>
\* what process_frame and the receive loop leave alone
outside_endpoint == <<profile_vars, channel_vars, compare_vars, log_vars, email_vars>>
\* what the alert e-mails leave alone
outside_email == <<profile_vars, channel_vars, compare_vars, log_vars, endpoint_vars,
                   smoother_vars, risk_vars, stream_vars>>
vars == <<smoother_vars, risk_vars, stream_vars, service_vars>>

\* Python's None, as a value that compares with the records that model dicts
None == [none |-> TRUE]

----------------------------------------------------------------------------
(* Bounds of the model *)

\* largest window_size a smoother is constructed with
MaxWindow == 2
\* most detections the two windows of a smoother hold together
MaxHeld == 3
\* most safe detections in an argument of evaluate
MaxPersons == 6
\* most unsafe detections in an argument of evaluate
MaxUnsafe == 6
\* most entries in a detections list handed to evaluate by a careless caller
MaxEntries == 2
\* most WebSocket connections the service accepts in a run
MaxConns == 2
\* most requests one user makes to the profiles router in a run
MaxRequests == 3
\* most smooth() calls in a run whose arguments are kept
MaxCalls == 4
\* largest FRAME_SKIP the service is configured with
MaxSkip == 2
\* most messages the connections receive in a run
MaxMessages == 3
\* largest EMAIL_RATE_LIMIT_SECONDS the service is configured with
MaxRateLimit == 2
\* how far the event loop's clock runs, in ticks
MaxClock == 10
\* most frames the service processes in a run, over all connections
MaxFrames == 3

----------------------------------------------------------------------------
(* Generic helpers *)

Min(a, b) == IF a <= b THEN a ELSE b

RECURSIVE Gcd(_, _)
Gcd(a, b) == IF b = 0 THEN a ELSE Gcd(b, a % b)

\* all sequences over S of length at most n
SeqsUpTo(S, n) == UNION {[1..k -> S] : k \in 0..n}

RECURSIVE Flatten(_)
\* the concatenation of a sequence of sequences, in order
Flatten(ss) == IF ss = <<>> THEN <<>> ELSE Head(ss) \o Flatten(Tail(ss))

RECURSIVE SumSeq(_)
SumSeq(s) == IF s = <<>> THEN 0 ELSE Head(s) + SumSeq(Tail(s))

----------------------------------------------------------------------------
(* Detections *)

SAFE_CLASSES == <<"person_walking", "person_sitting", "person_standing", "person_yoga">>
UNSAFE_CLASSES == <<"fire", "vehicle_car", "vehicle_motorbike">>

\* dataclass Detection
Detection(bbox, class_name, confidence, class_id) ==
    [bbox |-> bbox, class_name |-> class_name, confidence |-> confidence, class_id |-> class_id]

\* the class name predict() gives a box of class cls_id (0-based)
ClassName(classes, cls_id) ==
    IF cls_id < Len(classes) THEN classes[cls_id + 1] ELSE <<"class_", cls_id>>

BoxA == <<0, 0, 4, 4>>
BoxB == <<2, 2, 6, 6>>

\* raw detections the two detectors report (confidence in tenths)
SafeDetections ==
    { Detection(BoxB, ClassName(SAFE_CLASSES, 0), 5, 0) }
UnsafeDetections ==
    { Detection(BoxA, ClassName(UNSAFE_CLASSES, 0), 1, 0),
      Detection(BoxB, ClassName(UNSAFE_CLASSES, 0), 5, 0),
      Detection(BoxA, ClassName(UNSAFE_CLASSES, 1), 5, 1) }

\* the pairs (safe frame, unsafe frame) one predict() hands to smooth()
FramePairs ==
    { p \in SeqsUpTo(SafeDetections, MaxHeld) \X SeqsUpTo(UnsafeDetections, MaxHeld) :
        Len(p[1]) + Len(p[2]) <= MaxHeld }

\* the number of detections held in the two windows
Held(sh, uh) == Len(Flatten(sh)) + Len(Flatten(uh))

\* confidence_threshold: float = 0.3, the value VisionSafeInference leaves in place
DefaultThreshold == 3

----------------------------------------------------------------------------
(* TemporalSmoother *)

\* a plausible slip: a full deque ignores the new element
DequeAppendKeepOldest(dq, x, maxlen) ==
    IF Len(dq) >= maxlen THEN dq ELSE Append(dq, x)

\* a plausible slip: a list instead of a bounded deque
DequeAppendUnbounded(dq, x, maxlen) == Append(dq, x)

\* collections.deque(maxlen=maxlen).append(x)
DequeAppend(dq, x, maxlen) ==
    IF maxlen = 0 THEN dq
    ELSE IF Len(dq) = maxlen THEN Append(Tail(dq), x)
    ELSE Append(dq, x)

RECURSIVE ClassOrder(_, _)
\* the keys of class_detections in insertion order: class names by first appearance
ClassOrder(dets, seen) ==
    IF dets = <<>> THEN <<>>
    ELSE IF Head(dets).class_name \in seen THEN ClassOrder(Tail(dets), seen)
    ELSE <<Head(dets).class_name>> \o ClassOrder(Tail(dets), seen \cup {Head(dets).class_name})

\* class_detections[class_name]: the detections of the class, oldest frame first
ClassDetections(dets, class_name) ==
    SelectSeq(dets, LAMBDA d : d.class_name = class_name)

\* the float sum / n, as a reduced fraction of tenths
Frac(sum, n) == [num |-> sum \div Gcd(sum, n), den |-> n \div Gcd(sum, n)]

\* a plausible slip: averaging over the frames of the window
AvgConfidenceOverFrames(detections, history) ==
    Frac(SumSeq([i \in DOMAIN detections |-> detections[i].confidence]), Len(history))

\* avg_confidence = sum(d.confidence for d in detections) / len(detections)
AvgConfidence(detections, history) ==
    Frac(SumSeq([i \in DOMAIN detections |-> detections[i].confidence]), Len(detections))

\* a plausible slip: strictly above the threshold
KeepStrict(avg, threshold) == avg.num > threshold * avg.den

\* avg_confidence >= self.confidence_threshold
Keep(avg, threshold) == avg.num >= threshold * avg.den

\* a plausible slip: the first occurrence instead of the last
LatestIsFirst(detections) == detections[1]

\* latest = detections[-1]
Latest(detections) == detections[Len(detections)]

RECURSIVE SmoothClasses(_, _, _, _)
\* the loop over class_detections.items()
SmoothClasses(names, dets, history, threshold) ==
    IF names = <<>> THEN <<>>
    ELSE LET detections == ClassDetections(dets, Head(names))
             avg == AvgConfidence(detections, history)
             rest == SmoothClasses(Tail(names), dets, history, threshold)
         IN  IF Keep(avg, threshold)
             THEN <<Detection(Latest(detections).bbox, Head(names), avg,
                              Latest(detections).class_id)>> \o rest
             ELSE rest

\* TemporalSmoother._smooth_detections
SmoothDetections(history, threshold) ==
    IF history = <<>> THEN <<>>
    ELSE SmoothClasses(ClassOrder(Flatten(history), {}), Flatten(history), history, threshold)

\* a plausible slip: the safe list is smoothed from the unsafe window
SmoothReturnCrossed(args, sh, uh, threshold) ==
    [op |-> "smooth", args |-> args,
     safe |-> SmoothDetections(uh, threshold),
     unsafe |-> SmoothDetections(uh, threshold)]

\* a smooth() call: its arguments and the pair of lists it returns, computed
\* from the windows sh, uh as they are after the append
SmoothReturn(args, sh, uh, threshold) ==
    [op |-> "smooth", args |-> args,
     safe |-> SmoothDetections(sh, threshold),
     unsafe |-> SmoothDetections(uh, threshold)]

\* reset() and __init__ return nothing
NoReturn == [op |-> "none", args |-> <<>>, safe |-> <<>>, unsafe |-> <<>>]

\* TemporalSmoother.smooth, called with the same frame on both instances
Smooth(safe_detections, unsafe_detections) ==
    /\ safe_history' = DequeAppend(safe_history, safe_detections, window_size)
    /\ unsafe_history' = DequeAppend(unsafe_history, unsafe_detections, window_size)
    /\ returned' = SmoothReturn(<<safe_detections, unsafe_detections>>, safe_history',
                                unsafe_history', confidence_threshold)
    /\ fresh_safe_history' = DequeAppend(fresh_safe_history, safe_detections, window_size)
    /\ fresh_unsafe_history' = DequeAppend(fresh_unsafe_history, unsafe_detections, window_size)
    /\ fresh_returned' = SmoothReturn(<<safe_detections, unsafe_detections>>,
                                      fresh_safe_history', fresh_unsafe_history',
                                      confidence_threshold)
    /\ UNCHANGED <<window_size, confidence_threshold, fresh_since, risk_vars, stream_vars, service_vars>>

\* a plausible slip: only one of the two windows is cleared
ResetSafeOnly ==
    /\ safe_history' = <<>>
    /\ returned' = NoReturn
    /\ fresh_safe_history' = <<>>
    /\ fresh_unsafe_history' = <<>>
    /\ fresh_returned' = NoReturn
    /\ fresh_since' = "reset"
    /\ UNCHANGED <<window_size, confidence_threshold, unsafe_history, risk_vars, stream_vars, service_vars>>

\* TemporalSmoother.reset on the first instance; the second instance is
\* constructed anew at the same moment
Reset ==
    /\ safe_history' = <<>>
    /\ unsafe_history' = <<>>
    /\ returned' = NoReturn
    /\ fresh_safe_history' = <<>>
    /\ fresh_unsafe_history' = <<>>
    /\ fresh_returned' = NoReturn
    /\ fresh_since' = "reset"
    /\ UNCHANGED <<window_size, confidence_threshold, risk_vars, stream_vars, service_vars>>

\* TemporalSmoother.__init__ of the second instance alone, while the first
\* keeps the frames it holds
Construct ==
    /\ fresh_safe_history' = <<>>
    /\ fresh_unsafe_history' = <<>>
    /\ fresh_returned' = NoReturn
    /\ fresh_since' = IF safe_history = <<>> THEN fresh_since ELSE "late"
    /\ UNCHANGED <<window_size, confidence_threshold, safe_history, unsafe_history,
                   returned, risk_vars, stream_vars, service_vars>>

RiskIdle ==
    /\ safe_result = None
    /\ unsafe_result = None
    /\ verdict = None
    /\ prev_verdict = None

\* the WebSocket connections, in the order the service accepts them
Conns == 1..MaxConns

\* no connection has been accepted and no frame processed
StreamIdle ==
    /\ enable_smoothing = TRUE
    /\ conn_state = [c \in Conns |-> "waiting"]
    /\ frame_count = [c \in Conns |-> 0]
    /\ calls = <<>>
    /\ response = None

\* the requests of the user to the profiles router
Requests == 1..MaxRequests

\* a request that has not been made
NoRequest == [handler |-> "none", at |-> "idle", read |-> None, profile_id |-> 0,
              status |-> 0]

\* no request has been made to the profiles router
ProfilesIdle ==
    /\ profiles = {}
    /\ next_id = 0
    /\ requests = [r \in Requests |-> NoRequest]

\* the service is ready and no frame has been received
EndpointIdle ==
    /\ inference_service = "ready"
    /\ initialization_error = <<>>
    /\ frame_skip = 1
    /\ frame_skip_counter = [c \in Conns |-> 0]
    /\ frame_error_count = [c \in Conns |-> 0]
    /\ valid_seen = [c \in Conns |-> 0]
    /\ alert_count = 0
    /\ last = None

\* alerts are disabled and no e-mail has been asked for
EmailIdle ==
    /\ mail_config = [rate_limit |-> 1, alert_email_to |-> ""]
    /\ alerts_cfg = [enabled |-> FALSE, to |-> "", last_sent |-> 0]
    /\ persisted = alerts_cfg
    /\ clock = 0
    /\ sends = <<>>
    /\ attempt = None

\* nothing outside the inference pipeline has happened
ServiceIdle ==
    /\ ProfilesIdle
    /\ same_inputs = "both"
    /\ varied = None
    /\ given = <<>>
    /\ EndpointIdle
    /\ EmailIdle

\* TemporalSmoother.__init__ (both instances)
SmootherInit ==
    /\ window_size \in 1..MaxWindow
    /\ confidence_threshold = DefaultThreshold
    /\ safe_history = <<>>
    /\ unsafe_history = <<>>
    /\ returned = NoReturn
    /\ fresh_safe_history = <<>>
    /\ fresh_unsafe_history = <<>>
    /\ fresh_returned = NoReturn
    /\ fresh_since = "init"
    /\ RiskIdle
    /\ StreamIdle
    /\ ServiceIdle

SmootherNext ==
    \/ \E p \in FramePairs :
          /\ Held(DequeAppend(safe_history, p[1], window_size),
                  DequeAppend(unsafe_history, p[2], window_size)) <= MaxHeld
          /\ Smooth(p[1], p[2])
    \/ Reset
    \/ Construct

SpecSmoother == SmootherInit /\ [][SmootherNext]_vars

----------------------------------------------------------------------------
(* RiskEngine *)

\* The str operations act on the sequence of a label's characters.
Upper == <<"A", "B", "C", "D", "E", "F", "G", "H", "I", "J", "K", "L", "M",
           "N", "O", "P", "Q", "R", "S", "T", "U", "V", "W", "X", "Y", "Z">>
Lowercase == <<"a", "b", "c", "d", "e", "f", "g", "h", "i", "j", "k", "l", "m",
               "n", "o", "p", "q", "r", "s", "t", "u", "v", "w", "x", "y", "z">>

\* str.lower()
Lower(str) ==
    [i \in DOMAIN str |->
        IF \E k \in DOMAIN Upper : Upper[k] = str[i]
        THEN Lowercase[CHOOSE k \in DOMAIN Upper : Upper[k] = str[i]]
        ELSE str[i]]

\* sub in str
Contains(sub, str) ==
    \E i \in 1..(Len(str) - Len(sub) + 1) : SubSeq(str, i, i + Len(sub) - 1) = sub

FIRE == <<"f", "i", "r", "e">>
CAR == <<"c", "a", "r">>
VEHICLE == <<"v", "e", "h", "i", "c", "l", "e">>
MOTORBIKE == <<"m", "o", "t", "o", "r", "b", "i", "k", "e">>
TRUCK == <<"t", "r", "u", "c", "k">>

\* the labels that occur in the arguments of evaluate, with their characters
Chars ==
    [ l \in {"", "Fire", "fire", "vehicle_car", "smoke", "person_walking", "Truck",
             "motorbike", "scar", "campfire_car"} |->
        CASE l = "" -> <<>>
          [] l = "Fire" -> <<"F", "i", "r", "e">>
          [] l = "fire" -> <<"f", "i", "r", "e">>
          [] l = "vehicle_car" -> <<"v", "e", "h", "i", "c", "l", "e", "_", "c", "a", "r">>
          [] l = "smoke" -> <<"s", "m", "o", "k", "e">>
          [] l = "person_walking" ->
               <<"p", "e", "r", "s", "o", "n", "_", "w", "a", "l", "k", "i", "n", "g">>
          [] l = "Truck" -> <<"T", "r", "u", "c", "k">>
          [] l = "motorbike" -> <<"m", "o", "t", "o", "r", "b", "i", "k", "e">>
          [] l = "scar" -> <<"s", "c", "a", "r">>
          [] l = "campfire_car" ->
               <<"c", "a", "m", "p", "f", "i", "r", "e", "_", "c", "a", "r">> ]

\* the dict {}
EmptyDict == [k \in {} |-> k]

\* dict.get(key, default)
DictGet(dict, key, default) == IF key \in DOMAIN dict THEN dict[key] ELSE default

\* the truth value Python gives None and the empty dict
Falsy(x) == x = None \/ DOMAIN x = {}

\* X.get("detections", []) if X else []
DetectionsOf(result) == IF Falsy(result) THEN <<>> ELSE DictGet(result, "detections", <<>>)

\* "fire" in label
IsFire(label) == Contains(FIRE, label)

\* "car" in label or "vehicle" in label or "motorbike" in label or "truck" in label
IsVehicle(label) ==
    Contains(CAR, label) \/ Contains(VEHICLE, label) \/ Contains(MOTORBIKE, label)
        \/ Contains(TRUCK, label)

\* a plausible slip: the label tested as it is, without lower()
LabelBranchCaseSensitive ==
    [ l \in DOMAIN Chars |->
        IF IsFire(Chars[l]) THEN "fire"
        ELSE IF IsVehicle(Chars[l]) THEN "vehicle"
        ELSE "ignored" ]

\* the branch of the loop body a detection's label takes, label by label:
\* label = det.get("label", "").lower(); if "fire" in label .. elif "car" in label ..
LabelBranch ==
    [ l \in DOMAIN Chars |->
        IF IsFire(Lower(Chars[l])) THEN "fire"
        ELSE IF IsVehicle(Lower(Chars[l])) THEN "vehicle"
        ELSE "ignored" ]

RECURSIVE CountHazards(_, _)
\* the loop over unsafe_detections: [hazard_count, has_fire] after it
CountHazards(unsafe_detections, acc) ==
    IF unsafe_detections = <<>> THEN acc
    ELSE LET branch == LabelBranch[DictGet(Head(unsafe_detections), "label", "")]
         IN  CountHazards(Tail(unsafe_detections),
                 IF branch = "fire"
                 THEN [hazard_count |-> acc.hazard_count + 1, has_fire |-> TRUE]
                 ELSE IF branch = "vehicle"
                 THEN [hazard_count |-> acc.hazard_count + 1, has_fire |-> acc.has_fire]
                 ELSE acc)

\* a plausible slip: the hazard-only score without its cap
HighScoreUncapped(hazard_count) == 50 + hazard_count * 10

\* min(100.0, 50.0 + (hazard_count * 10.0))
HighScore(hazard_count) == Min(100, 50 + hazard_count * 10)

\* a plausible slip: the person-only score capped at 100 instead of 50
LowScoreWrongCap(person_count) == Min(100, person_count * 10)

\* min(50.0, person_count * 10.0)
LowScore(person_count) == Min(50, person_count * 10)

\* a plausible slip: the mixed branch tested after the hazard branch, so never taken
BranchHazardFirst(person_count, hazard_count) ==
    IF person_count = 0 /\ hazard_count = 0 THEN "none"
    ELSE IF hazard_count > 0 THEN "unsafe_only"
    ELSE IF person_count > 0 /\ hazard_count > 0 THEN "mixed"
    ELSE "safe_only"

\* a plausible slip: the persons-only branch tested before the branches for hazards
BranchPersonsFirst(person_count, hazard_count) ==
    IF person_count = 0 /\ hazard_count = 0 THEN "none"
    ELSE IF person_count > 0 THEN "safe_only"
    ELSE IF hazard_count > 0 THEN "unsafe_only"
    ELSE "fallthrough"

\* the if / elif chain of evaluate: the branch taken
Branch(person_count, hazard_count) ==
    IF person_count = 0 /\ hazard_count = 0 THEN "none"
    ELSE IF person_count > 0 /\ hazard_count > 0 THEN "mixed"
    ELSE IF hazard_count > 0 THEN "unsafe_only"
    ELSE IF person_count > 0 THEN "safe_only"
    ELSE "fallthrough"

\* the dict evaluate returns on its normal path
Verdict(level, score, factors, activity_type, person_count, hazard_count) ==
    [level |-> level, score |-> score, factors |-> factors, activity_type |-> activity_type,
     stats |-> [person_count |-> person_count, hazard_count |-> hazard_count]]

\* the character U+1F525 (fire) in front of the text of a fire factor
FireSign == "U+1F525"

\* a plausible slip: the fire entry put in front of the summary entry
CriticalFactorsFireFirst(person_count, hazard_count, has_fire) ==
    (IF has_fire THEN <<<<FireSign, " Fire Threat Active">>>> ELSE <<>>)
        \o <<<<"CRITICAL: ", person_count, " People detected near ", hazard_count, " Hazards!">>>>

\* risk_factors of the branch with persons and hazards
CriticalFactors(person_count, hazard_count, has_fire) ==
    <<<<"CRITICAL: ", person_count, " People detected near ", hazard_count, " Hazards!">>>>
        \o (IF has_fire THEN <<<<FireSign, " Fire Threat Active">>>> ELSE <<>>)

\* risk_factors of the branch with hazards only
HighFactors(hazard_count, has_fire) ==
    <<<<"Unsafe Zone: ", hazard_count, " Hazards detected">>>>
        \o (IF has_fire THEN <<<<FireSign, " Fire Detected">>>> ELSE <<>>)

\* risk_factors of the branch with persons only
LowFactors(person_count) == <<<<"Safe Crowd: ", person_count, " People monitored">>>>

\* the if / elif chain of evaluate and the dict it returns
Decide(person_count, hazard_count, has_fire) ==
    LET branch == Branch(person_count, hazard_count)
    IN  CASE branch = "none" ->
               Verdict("LOW", 0, <<>>, "Safe Activity", person_count, hazard_count)
          [] branch = "mixed" ->
               Verdict("CRITICAL", 100, CriticalFactors(person_count, hazard_count, has_fire),
                       "Unsafe Activity", person_count, hazard_count)
          [] branch = "unsafe_only" ->
               Verdict("HIGH", HighScore(hazard_count), HighFactors(hazard_count, has_fire),
                       "Unsafe Activity", person_count, hazard_count)
          [] branch = "safe_only" ->
               Verdict("LOW", LowScore(person_count), LowFactors(person_count),
                       "Safe Activity", person_count, hazard_count)
          [] OTHER ->
               Verdict("LOW", 0, <<>>, "Safe Activity", person_count, hazard_count)

\* a plausible slip: a detection under 0.5 confidence is not counted
EvaluateConfidenceFloor(safe, unsafe) ==
    LET Sure(d) == d.confidence >= 5
        counted == CountHazards(SelectSeq(DetectionsOf(unsafe), Sure),
                                [hazard_count |-> 0, has_fire |-> FALSE])
    IN  Decide(Len(SelectSeq(DetectionsOf(safe), Sure)), counted.hazard_count,
               counted.has_fire)

\* RiskEngine.evaluate (its try block, for arguments that raise nothing)
Evaluate(safe, unsafe) ==
    LET counted == CountHazards(DetectionsOf(unsafe), [hazard_count |-> 0, has_fire |-> FALSE])
    IN  Decide(Len(DetectionsOf(safe)), counted.hazard_count, counted.has_fire)

\* the dicts to_websocket_format builds for a detection, and labels a caller may pass
SafeDicts == { [label |-> "person_walking", confidence |-> 5, bbox |-> BoxA] }
UnsafeDicts ==
    { [label |-> "Fire", confidence |-> 9, bbox |-> BoxA],
      [label |-> "vehicle_car", confidence |-> 5, bbox |-> BoxB],
      [label |-> "smoke", confidence |-> 5, bbox |-> BoxB] }

\* the values a caller starts an argument from
StartResults == {None, EmptyDict, [detections |-> <<>>]}

\* the caller appends a detection to the safe argument of the call it prepares
AddSafe(d) ==
    /\ verdict = None
    /\ ~Falsy(safe_result)
    /\ Len(safe_result.detections) < MaxPersons
    /\ safe_result' = [detections |-> Append(safe_result.detections, d)]
    /\ UNCHANGED <<unsafe_result, verdict, prev_verdict, smoother_vars, stream_vars, service_vars>>

\* the caller appends a detection to the unsafe argument of the call it prepares
AddUnsafe(d) ==
    /\ verdict = None
    /\ ~Falsy(unsafe_result)
    /\ Len(unsafe_result.detections) < MaxUnsafe
    /\ unsafe_result' = [detections |-> Append(unsafe_result.detections, d)]
    /\ UNCHANGED <<safe_result, verdict, prev_verdict, smoother_vars, stream_vars, service_vars>>

\* risk_engine.evaluate(safe_result, unsafe_result)
CallEvaluate ==
    /\ verdict = None
    /\ verdict' = Evaluate(safe_result, unsafe_result)
    /\ UNCHANGED <<safe_result, unsafe_result, prev_verdict, smoother_vars, stream_vars, service_vars>>

\* the caller keeps the level and score of the verdict and prepares the next call
NextCall ==
    /\ verdict # None
    /\ prev_verdict' = [level |-> verdict.level, score |-> verdict.score]
    /\ verdict' = None
    /\ safe_result' \in StartResults
    /\ unsafe_result' \in StartResults
    /\ UNCHANGED <<smoother_vars, stream_vars, service_vars>>

SmootherIdle ==
    /\ window_size = 1
    /\ confidence_threshold = DefaultThreshold
    /\ safe_history = <<>>
    /\ unsafe_history = <<>>
    /\ returned = NoReturn
    /\ fresh_safe_history = <<>>
    /\ fresh_unsafe_history = <<>>
    /\ fresh_returned = NoReturn
    /\ fresh_since = "init"

\* RiskEngine.__init__ keeps no state; the first call is being prepared
RiskInit ==
    /\ safe_result \in StartResults
    /\ unsafe_result \in StartResults
    /\ verdict = None
    /\ prev_verdict = None
    /\ SmootherIdle
    /\ StreamIdle
    /\ ServiceIdle

RiskNext ==
    \/ \E d \in SafeDicts : AddSafe(d)
    \/ \E d \in UnsafeDicts : AddUnsafe(d)
    \/ CallEvaluate
    \/ NextCall

SpecRisk == RiskInit /\ [][RiskNext]_vars

----------------------------------------------------------------------------
(* RiskEngine.evaluate on arguments of any type.  A Python value is kept   *)
(* with its type: [type |-> "dict", value |-> the mapping of its keys],    *)
(* [type |-> "list", value |-> the sequence of its items], and so on.      *)

PyNone == [type |-> "NoneType"]
PyInt(n) == [type |-> "int", value |-> n]
PyStr(s) == [type |-> "str", value |-> s]
PyList(items) == [type |-> "list", value |-> items]
PyDict(fields) == [type |-> "dict", value |-> fields]

\* the outcome of a block of code that raised an exception
Raised == [type |-> "raised"]

\* bool(v)
Truthy(v) ==
    CASE v.type = "NoneType" -> FALSE
      [] v.type = "int" -> v.value # 0
      [] v.type = "str" -> v.value # ""
      [] v.type = "list" -> v.value # <<>>
      [] v.type = "dict" -> DOMAIN v.value # {}

\* X.get("detections", []) if X else []; a truthy X that is no dict has no get
GetDetections(result) ==
    IF ~Truthy(result) THEN PyList(<<>>)
    ELSE IF result.type = "dict" THEN DictGet(result.value, "detections", PyList(<<>>))
    ELSE Raised

\* the types len() accepts and the types a for loop iterates
Sized == {"list", "str", "dict"}

\* len(v), v of a type in Sized
LenOf(v) ==
    CASE v.type = "list" -> Len(v.value)
      [] v.type = "str" -> Len(Chars[v.value])
      [] v.type = "dict" -> Cardinality(DOMAIN v.value)

RECURSIVE KeySeq(_)
\* the keys of a dict as a for loop meets them
KeySeq(keys) ==
    IF keys = {} THEN <<>>
    ELSE LET k == CHOOSE x \in keys : TRUE
         IN  <<PyStr(k)>> \o KeySeq(keys \ {k})

\* the values `for det in v` binds det to, v of a type in Sized
Elements(v) ==
    CASE v.type = "list" -> v.value
      [] v.type = "str" -> [i \in DOMAIN Chars[v.value] |-> PyStr(Chars[v.value][i])]
      [] v.type = "dict" -> KeySeq(DOMAIN v.value)

RECURSIVE CountHazardsSkipBad(_, _)
\* a plausible slip: an entry the loop cannot read is skipped instead of raising
CountHazardsSkipBad(unsafe_detections, acc) ==
    IF unsafe_detections = <<>> THEN acc
    ELSE LET det == Head(unsafe_detections)
             label == DictGet(det.value, "label", PyStr(""))
         IN  IF det.type # "dict" THEN CountHazardsSkipBad(Tail(unsafe_detections), acc)
             ELSE IF label.type # "str" THEN CountHazardsSkipBad(Tail(unsafe_detections), acc)
             ELSE CountHazardsSkipBad(Tail(unsafe_detections),
                      IF LabelBranch[label.value] = "fire"
                      THEN [acc EXCEPT !.hazard_count = @ + 1, !.has_fire = TRUE]
                      ELSE IF LabelBranch[label.value] = "vehicle"
                      THEN [acc EXCEPT !.hazard_count = @ + 1]
                      ELSE acc)

RECURSIVE CountHazardsTry(_, _)
\* the loop over unsafe_detections: [hazard_count, has_fire, raised] after it.
\* det.get raises on a det that is no dict, .lower() on a label that is no str.
CountHazardsTry(unsafe_detections, acc) ==
    IF unsafe_detections = <<>> THEN acc
    ELSE LET det == Head(unsafe_detections)
             label == DictGet(det.value, "label", PyStr(""))
         IN  IF det.type # "dict" THEN [acc EXCEPT !.raised = TRUE]
             ELSE IF label.type # "str" THEN [acc EXCEPT !.raised = TRUE]
             ELSE CountHazardsTry(Tail(unsafe_detections),
                      IF LabelBranch[label.value] = "fire"
                      THEN [acc EXCEPT !.hazard_count = @ + 1, !.has_fire = TRUE]
                      ELSE IF LabelBranch[label.value] = "vehicle"
                      THEN [acc EXCEPT !.hazard_count = @ + 1]
                      ELSE acc)

\* the try block of evaluate: the dict it returns, or Raised
TryBlock(safe, unsafe) ==
    LET safe_detections == GetDetections(safe)
        unsafe_detections == GetDetections(unsafe)
        counted == CountHazardsTry(Elements(unsafe_detections),
                       [hazard_count |-> 0, has_fire |-> FALSE, raised |-> FALSE])
    IN  IF safe_detections.type \notin Sized \/ unsafe_detections.type \notin Sized
        THEN Raised
        ELSE IF counted.raised THEN Raised
        ELSE Decide(LenOf(safe_detections), counted.hazard_count, counted.has_fire)

\* the dict the except clause returns
DefaultVerdict ==
    [level |-> "LOW", score |-> 0, factors |-> <<>>, activity_type |-> "Safe Activity"]

\* a plausible slip: an except clause that is too narrow to catch the fault
ExceptNothing(outcome) == outcome

\* except Exception: the outcome of the try block, or the default when it raised
Except(outcome) == IF outcome = Raised THEN DefaultVerdict ELSE outcome

\* RiskEngine.evaluate
EvaluateTry(safe, unsafe) == Except(TryBlock(safe, unsafe))

\* values a careless caller passes for a result
LooseResults ==
    { PyNone, PyDict(EmptyDict), PyInt(3), PyStr("smoke"), PyList(<<PyInt(3)>>),
      PyDict([error |-> PyStr("smoke")]),
      PyDict([detections |-> PyList(<<>>)]),
      PyDict([detections |-> PyNone]),
      PyDict([detections |-> PyInt(2)]),
      PyDict([detections |-> PyStr("")]),
      PyDict([detections |-> PyStr("Fire")]),
      PyDict([detections |-> PyDict([label |-> PyStr("Fire")])]) }

\* entries a careless caller puts in a safe detections list
LooseSafeEntries == { PyDict([label |-> PyStr("person_walking")]), PyNone }

\* entries a careless caller puts in an unsafe detections list
LooseUnsafeEntries ==
    { PyDict([label |-> PyStr(l)]) :
        l \in {"Fire", "vehicle_car", "smoke", "Truck", "motorbike", "scar", "campfire_car"} }
    \cup { PyDict([confidence |-> PyInt(5)]),
           PyDict([label |-> PyNone]),
           PyDict([label |-> PyInt(7)]),
           PyNone,
           PyStr("fire") }

\* a result whose detections are a list
HasList(result) ==
    /\ result.type = "dict"
    /\ "detections" \in DOMAIN result.value
    /\ result.value.detections.type = "list"

\* the caller appends an entry to the detections of a result
WithEntry(result, e) == PyDict([detections |-> PyList(Append(result.value.detections.value, e))])

\* the caller appends an entry to the safe argument of the call it prepares
AddSafeEntry(e) ==
    /\ verdict = None
    /\ HasList(safe_result)
    /\ Len(safe_result.value.detections.value) < MaxEntries
    /\ safe_result' = WithEntry(safe_result, e)
    /\ UNCHANGED <<unsafe_result, verdict, prev_verdict, smoother_vars, stream_vars, service_vars>>

\* the caller appends an entry to the unsafe argument of the call it prepares
AddUnsafeEntry(e) ==
    /\ verdict = None
    /\ HasList(unsafe_result)
    /\ Len(unsafe_result.value.detections.value) < MaxEntries
    /\ unsafe_result' = WithEntry(unsafe_result, e)
    /\ UNCHANGED <<safe_result, verdict, prev_verdict, smoother_vars, stream_vars, service_vars>>

\* risk_engine.evaluate(safe_result, unsafe_result)
CallEvaluateTry ==
    /\ verdict = None
    /\ verdict' = EvaluateTry(safe_result, unsafe_result)
    /\ UNCHANGED <<safe_result, unsafe_result, prev_verdict, smoother_vars, stream_vars, service_vars>>

\* the caller prepares the next call
NextCallTry ==
    /\ verdict # None
    /\ verdict' = None
    /\ safe_result' \in LooseResults
    /\ unsafe_result' \in LooseResults
    /\ UNCHANGED <<prev_verdict, smoother_vars, stream_vars, service_vars>>

FaultInit ==
    /\ safe_result \in LooseResults
    /\ unsafe_result \in LooseResults
    /\ verdict = None
    /\ prev_verdict = None
    /\ SmootherIdle
    /\ StreamIdle
    /\ ServiceIdle

FaultNext ==
    \/ \E e \in LooseSafeEntries : AddSafeEntry(e)
    \/ \E e \in LooseUnsafeEntries : AddUnsafeEntry(e)
    \/ CallEvaluateTry
    \/ NextCallTry

SpecFault == FaultInit /\ [][FaultNext]_vars

----------------------------------------------------------------------------
(* RiskEngine.evaluate called twice, the caller keeping the first verdict *)

\* RiskEngine.RISK_LEVELS
RISK_LEVELS == [LOW |-> 0, HIGH |-> 1, CRITICAL |-> 2]

\* the results a caller passes: None, or a dict with a short detections list
FewResults(dicts) == {None} \cup { [detections |-> dets] : dets \in SeqsUpTo(dicts, MaxEntries) }

\* the caller keeps the whole verdict and calls again with other arguments
CallAgain ==
    /\ verdict # None
    /\ prev_verdict' = verdict
    /\ verdict' = None
    /\ safe_result' \in FewResults(SafeDicts)
    /\ unsafe_result' \in FewResults(UnsafeDicts)
    /\ UNCHANGED <<smoother_vars, stream_vars, service_vars>>

LevelsInit ==
    /\ safe_result \in FewResults(SafeDicts)
    /\ unsafe_result \in FewResults(UnsafeDicts)
    /\ verdict = None
    /\ prev_verdict = None
    /\ SmootherIdle
    /\ StreamIdle
    /\ ServiceIdle

LevelsNext ==
    \/ CallEvaluate
    \/ CallAgain

SpecLevels == LevelsInit /\ [][LevelsNext]_vars

----------------------------------------------------------------------------
(* The service behind the WebSocket endpoint: main.websocket_endpoint      *)
(* hands every frame of every connection to the one module-level           *)
(* ml_service, whose inference_service owns the smoother (safe_history,    *)
(* unsafe_history).  The second smoother (fresh_..) is one that the first  *)
(* connection would have to itself: constructed with the same              *)
(* configuration and fed the frames of that connection only.  The fields   *)
(* of a response that no claim reads (bbox_normalized, image_size,         *)
(* inference_time_ms) are left out.                                        *)

\* the raw detections of a frame: what the two detectors report for it
\* (nothing; two persons of one class; a fire)
StreamFrames ==
    { <<<<>>, <<>>>>,
      <<<<Detection(BoxB, ClassName(SAFE_CLASSES, 0), 5, 0),
          Detection(BoxA, ClassName(SAFE_CLASSES, 0), 5, 0)>>, <<>>>>,
      <<<<>>, <<Detection(BoxA, ClassName(UNSAFE_CLASSES, 0), 5, 0)>>>> }

\* float(round(d.confidence, 3)) in thousandths; a smoothed confidence is an
\* average (a fraction of tenths), a raw one a number of tenths
Round3(confidence, is_average) ==
    IF is_average
    THEN (200 * confidence.num + confidence.den) \div (2 * confidence.den)
    ELSE 100 * confidence

\* the dicts to_websocket_format makes of a list of detections
ToWebsocketFormat(detections, is_average) ==
    [detections |->
        [i \in DOMAIN detections |->
            [label |-> detections[i].class_name,
             confidence |-> Round3(detections[i].confidence, is_average),
             bbox |-> detections[i].bbox]]]

\* a plausible slip: smooth() is called and what it returns is dropped
PredictKeepsRaw(enabled, frame, smoothed) ==
    IF enabled
    THEN <<[i \in DOMAIN frame[1] |-> [frame[1][i] EXCEPT !.confidence = Frac(@, 1)]],
           [i \in DOMAIN frame[2] |-> [frame[2][i] EXCEPT !.confidence = Frac(@, 1)]]>>
    ELSE frame

\* the detections predict() returns for a frame: what smooth() returned when
\* smoothing is enabled, the raw detections otherwise
Predict(enabled, frame, smoothed) ==
    IF enabled THEN <<smoothed.safe, smoothed.unsafe>> ELSE frame

\* websocket_endpoint accepts connection c
Accept(c) ==
    /\ conn_state[c] = "waiting"
    /\ \A earlier \in 1..(c - 1) : conn_state[earlier] # "waiting"
    /\ conn_state' = [conn_state EXCEPT ![c] = "open"]
    /\ UNCHANGED <<enable_smoothing, frame_count, calls, response, smoother_vars, risk_vars,
                   service_vars>>

\* connection c ends: the client disconnects or the receive times out
Disconnect(c) ==
    /\ conn_state[c] = "open"
    /\ conn_state' = [conn_state EXCEPT ![c] = "ended"]
    /\ UNCHANGED <<enable_smoothing, frame_count, calls, response, smoother_vars, risk_vars,
                   service_vars>>

\* connection c delivers a frame and ml_service.process_frame handles it:
\* predict (both detectors, then smooth), to_websocket_format, evaluate, and
\* the result is sent to c
ProcessFrame(c, frame) ==
    LET smoothed == SmoothReturn(frame,
                        DequeAppend(safe_history, frame[1], window_size),
                        DequeAppend(unsafe_history, frame[2], window_size),
                        confidence_threshold)
        own == SmoothReturn(frame,
                   DequeAppend(fresh_safe_history, frame[1], window_size),
                   DequeAppend(fresh_unsafe_history, frame[2], window_size),
                   confidence_threshold)
        result == Predict(enable_smoothing, frame, smoothed)
        websocket_safe == ToWebsocketFormat(result[1], enable_smoothing)
        websocket_unsafe == ToWebsocketFormat(result[2], enable_smoothing)
        risk_data == Evaluate(websocket_safe, websocket_unsafe)
    IN  /\ conn_state[c] = "open"
        /\ SumSeq(frame_count) < MaxFrames
        /\ IF enable_smoothing
           THEN /\ safe_history' = DequeAppend(safe_history, frame[1], window_size)
                /\ unsafe_history' = DequeAppend(unsafe_history, frame[2], window_size)
                /\ returned' = smoothed
           ELSE UNCHANGED <<safe_history, unsafe_history, returned>>
        /\ IF enable_smoothing /\ c = 1
           THEN /\ fresh_safe_history' = DequeAppend(fresh_safe_history, frame[1], window_size)
                /\ fresh_unsafe_history' = DequeAppend(fresh_unsafe_history, frame[2], window_size)
                /\ fresh_returned' = own
           ELSE UNCHANGED <<fresh_safe_history, fresh_unsafe_history, fresh_returned>>
        /\ safe_result' = websocket_safe
        /\ unsafe_result' = websocket_unsafe
        /\ verdict' = risk_data
        /\ calls' = <<[op |-> "safe_model", gave |-> frame[1]],
                      [op |-> "unsafe_model", gave |-> frame[2]]>>
                    \o (IF enable_smoothing
                        THEN <<[op |-> "smooth", gave |-> <<smoothed.safe, smoothed.unsafe>>]>>
                        ELSE <<>>)
                    \o <<[op |-> "evaluate", gave |-> risk_data]>>
        /\ response' = [conn |-> c, safe |-> websocket_safe, unsafe |-> websocket_unsafe,
                        risk |-> risk_data]
        /\ frame_count' = [frame_count EXCEPT ![c] = @ + 1]
        /\ UNCHANGED <<window_size, confidence_threshold, fresh_since, prev_verdict,
                       enable_smoothing, conn_state, service_vars>>

\* MLService.__init__: one inference service, with one smoother when
\* smoothing is enabled, and no connection yet
StreamInit ==
    /\ window_size \in 1..MaxWindow
    /\ confidence_threshold = DefaultThreshold
    /\ safe_history = <<>>
    /\ unsafe_history = <<>>
    /\ returned = NoReturn
    /\ fresh_safe_history = <<>>
    /\ fresh_unsafe_history = <<>>
    /\ fresh_returned = NoReturn
    /\ fresh_since = "init"
    /\ RiskIdle
    /\ enable_smoothing \in BOOLEAN
    /\ conn_state = [c \in Conns |-> "waiting"]
    /\ frame_count = [c \in Conns |-> 0]
    /\ calls = <<>>
    /\ response = None
    /\ ServiceIdle

StreamNext ==
    \/ \E c \in Conns : Accept(c)
    \/ \E c \in Conns : Disconnect(c)
    \/ \E c \in Conns, frame \in StreamFrames : ProcessFrame(c, frame)

SpecStream == StreamInit /\ [][StreamNext]_vars

----------------------------------------------------------------------------
(* The smoother's claims, checked under SpecSmoother *)

\* the positions <<frame, index>> of the detections of a class in a window
Positions(history, class_name) ==
    { ij \in UNION { {i} \X DOMAIN history[i] : i \in DOMAIN history } :
        history[ij[1]][ij[2]].class_name = class_name }

RECURSIVE TotalConfidence(_, _)
\* the sum of the confidences at a set of positions of a window
TotalConfidence(history, positions) ==
    IF positions = {} THEN 0
    ELSE LET ij == CHOOSE x \in positions : TRUE
         IN  history[ij[1]][ij[2]].confidence + TotalConfidence(history, positions \ {ij})

\* the class names that occur in a window
ClassesIn(history) ==
    { history[i][j].class_name : <<i, j>> \in UNION { {i} \X DOMAIN history[i] : i \in DOMAIN history } }

Channels == {"safe", "unsafe"}
HistoryOf(ch) == IF ch = "safe" THEN safe_history ELSE unsafe_history

\* the window after appending frame to a window of capacity window_size
FifoAppend(history, frame) ==
    IF Len(history) = window_size THEN Append(Tail(history), frame) ELSE Append(history, frame)

\* C1: both windows hold at most window_size frames in every state, and a
\* smooth() call on a full window drops the oldest frame and appends the
\* current one (on a window that is not full it only appends).  A step in
\* which smooth() was called is one that leaves op = "smooth" in both
\* instances: reset() and __init__ leave "none" in one of them.
C1_WindowBoundedFifo ==
    /\ [](Len(safe_history) <= window_size /\ Len(unsafe_history) <= window_size)
    /\ [][fresh_returned'.op = "smooth" =>
                /\ safe_history' = FifoAppend(safe_history, returned'.args[1])
                /\ unsafe_history' = FifoAppend(unsafe_history, returned'.args[2])]_vars

\* C1 witness: a smooth() call has acted on full windows (the second
\* instance, constructed after the first held frames, has itself been filled).
C1_Witness ==
    /\ window_size = MaxWindow
    /\ fresh_since = "late"
    /\ Len(fresh_safe_history) = window_size
    /\ Len(safe_history) = window_size
    /\ returned.op = "smooth"

\* C2: the confidence smooth() reports for a class, times the number of
\* detections of the class in the window, equals the sum of their confidences
\* (the mean over the occurrences, not over the frames).
C2_MeanOverOccurrences ==
    returned.op = "smooth" =>
        \A ch \in Channels : \A k \in DOMAIN returned[ch] :
            LET e == returned[ch][k]
                pos == Positions(HistoryOf(ch), e.class_name)
            IN  /\ pos # {}
                /\ e.confidence.num * Cardinality(pos)
                     = e.confidence.den * TotalConfidence(HistoryOf(ch), pos)

\* C2 witness: a reported class occurs twice in one frame of the window and
\* not at all in another frame of the window.
C2_Witness ==
    /\ returned.op = "smooth"
    /\ \E k \in DOMAIN returned.unsafe :
         LET pos == Positions(unsafe_history, returned.unsafe[k].class_name)
         IN  /\ \E x, y \in pos : x[1] = y[1] /\ x[2] # y[2]
             /\ \E i \in DOMAIN unsafe_history : \A x \in pos : x[1] # i

\* C3: the output of a channel has exactly one entry for every class of the
\* window whose mean confidence is at least confidence_threshold, and no other entry.
C3_KeptExactlyAboveThreshold ==
    returned.op = "smooth" =>
        \A ch \in Channels :
            LET out == returned[ch]
                h == HistoryOf(ch)
                Reaches(c) == TotalConfidence(h, Positions(h, c))
                                >= confidence_threshold * Cardinality(Positions(h, c))
            IN  /\ \A c \in ClassesIn(h) :
                      Cardinality({k \in DOMAIN out : out[k].class_name = c})
                        = IF Reaches(c) THEN 1 ELSE 0
                /\ \A k \in DOMAIN out : out[k].class_name \in ClassesIn(h)

\* C3 witness: one class is kept with its mean equal to the threshold while
\* another class is in the output too.
C3_Witness ==
    /\ returned.op = "smooth"
    /\ Len(returned.unsafe) = 2
    /\ \E k \in DOMAIN returned.unsafe :
         /\ returned.unsafe[k].confidence = [num |-> confidence_threshold, den |-> 1]
         /\ Cardinality(Positions(unsafe_history, returned.unsafe[k].class_name)) > 1

\* C4: once the second instance has received window_size frames, the first
\* instance, which received the same frames after any number of earlier ones,
\* returns what the second returns.
C4_OnlyLastWindowCounts ==
    (Len(fresh_safe_history) = window_size /\ returned.op = "smooth")
        => returned = fresh_returned

\* C4 witness: the first instance held frames before the second was
\* constructed, window_size frames followed, and the output is not empty.
C4_Witness ==
    /\ fresh_since = "late"
    /\ window_size = MaxWindow
    /\ Len(fresh_safe_history) = window_size
    /\ returned.op = "smooth"
    /\ returned.unsafe # <<>>

\* the most recent occurrence of a class in a window: the last-listed
\* detection of the class in the newest frame that contains it
MostRecent(history, class_name) ==
    LET pos == Positions(history, class_name)
        ij == CHOOSE x \in pos :
                 \A y \in pos : y[1] < x[1] \/ (y[1] = x[1] /\ y[2] <= x[2])
    IN  history[ij[1]][ij[2]]

\* C5: every output entry carries the bbox and class_id of the most recent
\* occurrence of its class in the window.
C5_LatestBoxAndId ==
    returned.op = "smooth" =>
        \A ch \in Channels : \A k \in DOMAIN returned[ch] :
            LET e == returned[ch][k]
            IN  /\ e.bbox = MostRecent(HistoryOf(ch), e.class_name).bbox
                /\ e.class_id = MostRecent(HistoryOf(ch), e.class_name).class_id

\* C5 witness: a kept class occurs in two frames with different boxes, and
\* its reported confidence differs from that of the most recent occurrence.
C5_Witness ==
    /\ returned.op = "smooth"
    /\ \E k \in DOMAIN returned.unsafe :
         LET e == returned.unsafe[k]
             pos == Positions(unsafe_history, e.class_name)
         IN  /\ \E x, y \in pos :
                   /\ x[1] < y[1]
                   /\ unsafe_history[x[1]][x[2]].bbox # unsafe_history[y[1]][y[2]].bbox
             /\ e.confidence # [num |-> MostRecent(unsafe_history, e.class_name).confidence,
                                den |-> 1]

\* C6: after reset() (or no call at all) both windows are empty; no call
\* changes window_size or confidence_threshold; reset() on empty windows
\* changes nothing of the instance; and after a reset() the instance returns
\* what a smoother constructed at that moment returns.
C6_ResetIsFresh ==
    /\ [](/\ returned.op = "none" => (safe_history = <<>> /\ unsafe_history = <<>>)
          /\ fresh_since = "reset" => returned = fresh_returned)
    /\ [][/\ window_size' = window_size
          /\ confidence_threshold' = confidence_threshold
          /\ (Reset /\ returned.op = "none")
                => UNCHANGED <<safe_history, unsafe_history, returned>>]_vars

\* C6 witness: smooth() has returned detections after a reset().
C6_Witness ==
    /\ fresh_since = "reset"
    /\ returned.op = "smooth"
    /\ returned.unsafe # <<>>
    /\ returned.safe # <<>>

----------------------------------------------------------------------------
(* The risk engine's claims, checked under SpecRisk *)

\* the number of safe detections in the argument of the call
Persons == Len(DetectionsOf(safe_result))

\* the number of unsafe detections of the call whose label is that of a hazard
Hazards ==
    LET dets == DetectionsOf(unsafe_result)
    IN  Cardinality({ i \in DOMAIN dets :
                        LabelBranch[DictGet(dets[i], "label", "")] # "ignored" })

\* C7: the level and activity_type of a verdict follow the four-way table on
\* (number of safe detections, number of unsafe detections that are hazards).
C7_DecisionTable ==
    verdict # None =>
        /\ (Persons = 0 /\ Hazards = 0) =>
              (verdict.level = "LOW" /\ verdict.activity_type = "Safe Activity")
        /\ (Persons > 0 /\ Hazards > 0) =>
              (verdict.level = "CRITICAL" /\ verdict.activity_type = "Unsafe Activity")
        /\ (Persons = 0 /\ Hazards > 0) =>
              (verdict.level = "HIGH" /\ verdict.activity_type = "Unsafe Activity")
        /\ (Persons > 0 /\ Hazards = 0) =>
              (verdict.level = "LOW" /\ verdict.activity_type = "Safe Activity")

\* C7 witness: persons and hazards together, with an unsafe detection that
\* is no hazard, give CRITICAL.
C7_Witness ==
    /\ verdict # None
    /\ Persons = 2
    /\ Hazards = 1
    /\ Len(DetectionsOf(unsafe_result)) = 2
    /\ verdict.level = "CRITICAL"

C10_LevelFromScore ==
    (verdict # None /\ prev_verdict # None /\ verdict.score = prev_verdict.score)
        => verdict.level = prev_verdict.level

\* C10 as amended: a LOW score is at most 50 and a HIGH score at least 60, and
\* two verdicts with equal scores have equal levels unless the score is 100,
\* which a HIGH and a CRITICAL verdict share.
C10_LevelFromScoreBelow100 ==
    /\ verdict # None =>
          /\ verdict.level = "LOW" => verdict.score <= 50
          /\ verdict.level = "HIGH" => verdict.score >= 60
          /\ verdict.level = "CRITICAL" => verdict.score = 100
    /\ (verdict # None /\ prev_verdict # None /\ verdict.score = prev_verdict.score)
          => \/ verdict.level = prev_verdict.level
             \/ /\ verdict.score = 100
                /\ {verdict.level, prev_verdict.level} = {"HIGH", "CRITICAL"}

\* C10 witness: a HIGH and a CRITICAL verdict with the same score.
C10_Witness ==
    /\ verdict # None
    /\ prev_verdict # None
    /\ verdict.score = prev_verdict.score
    /\ verdict.level = "HIGH"
    /\ prev_verdict.level = "CRITICAL"

----------------------------------------------------------------------------
(* The claims about faults in evaluate, checked under SpecFault *)

\* the entries of the detections list of a result, when it has one
EntriesOf(result) == IF HasList(result) THEN result.value.detections.value ELSE <<>>

\* a truthy value that is not a dict, passed as a result
NotADict(result) == result.type \in {"int", "str", "list"} /\ Truthy(result)

\* a result whose detections have no length
UnsizedDetections(result) ==
    /\ result.type = "dict"
    /\ "detections" \in DOMAIN result.value
    /\ result.value.detections.type \in {"NoneType", "int"}

\* an unsafe entry that is not a dict, or whose label is not a string
BadUnsafeEntry ==
    \E i \in DOMAIN EntriesOf(unsafe_result) :
        LET e == EntriesOf(unsafe_result)[i]
        IN  \/ e.type # "dict"
            \/ "label" \in DOMAIN e.value /\ e.value.label.type # "str"

\* an unsafe entry that is a dict without a label
UnlabelledUnsafeEntry ==
    \E i \in DOMAIN EntriesOf(unsafe_result) :
        LET e == EntriesOf(unsafe_result)[i]
        IN  e.type = "dict" /\ "label" \notin DOMAIN e.value

\* a safe entry that is not a dict
BadSafeEntry ==
    \E i \in DOMAIN EntriesOf(safe_result) : EntriesOf(safe_result)[i].type # "dict"

\* the four fields of the default verdict
IsDefault(v) ==
    /\ {"level", "score", "factors", "activity_type"} \subseteq DOMAIN v
    /\ v.level = "LOW"
    /\ v.score = 0
    /\ v.factors = <<>>
    /\ v.activity_type = "Safe Activity"

\* C11: evaluate never raises: every call returns a verdict with a level, a
\* score, factors and an activity type, and a call that meets a fault (a
\* result that is not a dict, detections without a length, an unsafe entry
\* that is no dict or has a label that is no string) returns LOW, 0.0, []
\* and 'Safe Activity'.
C11_NeverRaises ==
    verdict # None =>
        /\ verdict # Raised
        /\ {"level", "score", "factors", "activity_type"} \subseteq DOMAIN verdict
        /\ verdict.level \in {"LOW", "HIGH", "CRITICAL"}
        /\ ( \/ NotADict(safe_result) \/ NotADict(unsafe_result)
             \/ UnsizedDetections(safe_result) \/ UnsizedDetections(unsafe_result)
             \/ BadUnsafeEntry )
              => IsDefault(verdict)

\* C11 witness: two persons, and an unsafe argument that is a list instead
\* of a dict: the call returns the default verdict.
C11_Witness ==
    /\ verdict # None
    /\ Len(EntriesOf(safe_result)) = 2
    /\ ~BadSafeEntry
    /\ unsafe_result = PyList(<<PyInt(3)>>)
    /\ IsDefault(verdict)

\* C12 as claimed: a detection entry that misses its label or has a wrong
\* type makes the verdict the default one, whatever else the input holds.
C12_MalformedEntryGivesDefault ==
    (verdict # None /\ (BadUnsafeEntry \/ UnlabelledUnsafeEntry \/ BadSafeEntry))
        => IsDefault(verdict)

\* the labels of the unsafe entries: the label of a dict with a string label,
\* and "" for any other entry
UnsafeLabels ==
    [ i \in DOMAIN EntriesOf(unsafe_result) |->
        LET e == EntriesOf(unsafe_result)[i]
        IN  IF e.type = "dict" /\ "label" \in DOMAIN e.value /\ e.value.label.type = "str"
            THEN e.value.label.value
            ELSE "" ]

\* the labels that contain "fire" once lower-cased, and those that do not
\* but contain "car", "vehicle", "motorbike" or "truck"
FireLabels == {"Fire", "fire", "campfire_car"}
VehicleLabels == {"vehicle_car", "Truck", "motorbike", "scar"}

\* the number of unsafe entries whose label is that of a hazard
LabelledHazards ==
    Cardinality({ i \in DOMAIN UnsafeLabels : UnsafeLabels[i] \in FireLabels \cup VehicleLabels })

\* C12 as amended: an unsafe entry that is not a dict, or whose label is not
\* a string, makes the verdict the default one whatever persons or fire the
\* input holds; an unsafe entry without a label is no fault and no hazard,
\* and a safe entry of any type counts as a person.
C12_BadUnsafeEntryGivesDefault ==
    verdict # None =>
        /\ BadUnsafeEntry => IsDefault(verdict)
        /\ (HasList(safe_result) /\ HasList(unsafe_result) /\ ~BadUnsafeEntry) =>
              /\ "stats" \in DOMAIN verdict
              /\ verdict.stats.person_count = Len(EntriesOf(safe_result))
              /\ verdict.stats.hazard_count = LabelledHazards
              /\ (verdict.stats.person_count > 0 /\ LabelledHazards > 0)
                    => verdict.level = "CRITICAL"

\* C12 witness: a person and a fire, and an unsafe entry whose label is None:
\* the verdict is the default one.
C12_Witness ==
    /\ verdict # None
    /\ EntriesOf(safe_result) = <<PyDict([label |-> PyStr("person_walking")])>>
    /\ EntriesOf(unsafe_result) = <<PyDict([label |-> PyStr("Fire")]), PyDict([label |-> PyNone])>>
    /\ IsDefault(verdict)

\* C13: every verdict, on the normal and on the fault path, carries level,
\* score, factors, activity_type and stats.
C13_StatsInEveryVerdict ==
    verdict # None =>
        {"level", "score", "factors", "activity_type", "stats"} \subseteq DOMAIN verdict

\* C15: an unsafe entry whose lower-cased label contains "fire" adds one
\* hazard and a fire factor; otherwise one whose label contains "car",
\* "vehicle", "motorbike" or "truck" adds one hazard; any other label adds
\* nothing and is no fault.  So the hazards are at most the unsafe entries,
\* and a fire factor comes with at least one hazard.
C15_HazardClassification ==
    (verdict # None /\ HasList(safe_result) /\ HasList(unsafe_result) /\ ~BadUnsafeEntry) =>
        /\ "stats" \in DOMAIN verdict
        /\ verdict.stats.hazard_count = LabelledHazards
        /\ (\E k \in DOMAIN verdict.factors :
                verdict.factors[k] \in {<<FireSign, " Fire Threat Active">>, <<FireSign, " Fire Detected">>})
              <=> (\E i \in DOMAIN UnsafeLabels : UnsafeLabels[i] \in FireLabels)
        /\ verdict.stats.hazard_count <= Len(EntriesOf(unsafe_result))
        /\ (\E i \in DOMAIN UnsafeLabels : UnsafeLabels[i] \in FireLabels)
              => verdict.stats.hazard_count >= 1

\* C15 witness: a label with both "fire" and "car" counts once, as a fire,
\* beside a label that matches nothing.
C15_Witness ==
    /\ verdict # None
    /\ HasList(safe_result)
    /\ UnsafeLabels = <<"campfire_car", "smoke">>
    /\ verdict.stats.hazard_count = 1
    /\ Len(verdict.factors) = 2

----------------------------------------------------------------------------
(* The factors of a verdict, checked under SpecRisk *)

\* an unsafe detection of the call has a label that contains "fire"
FireSeen ==
    LET dets == DetectionsOf(unsafe_result)
    IN  \E i \in DOMAIN dets : DictGet(dets[i], "label", "") \in FireLabels

\* the two fire entries
FireEntries == {<<FireSign, " Fire Threat Active">>, <<FireSign, " Fire Detected">>}

\* C16: the factors are, in order: nothing when nothing is detected; with
\* persons and hazards the CRITICAL message and then the 'Fire Threat Active'
\* entry exactly when a fire was seen; with hazards only the 'Unsafe Zone'
\* message and then the 'Fire Detected' entry exactly when a fire was seen;
\* with persons only the single 'Safe Crowd' message.  A LOW verdict has no
\* fire entry.
C16_FactorsByBranch ==
    verdict # None =>
        /\ (Persons = 0 /\ Hazards = 0) => verdict.factors = <<>>
        /\ (Persons > 0 /\ Hazards > 0) =>
              verdict.factors =
                  <<<<"CRITICAL: ", Persons, " People detected near ", Hazards, " Hazards!">>>>
                      \o (IF FireSeen THEN <<<<FireSign, " Fire Threat Active">>>> ELSE <<>>)
        /\ (Persons = 0 /\ Hazards > 0) =>
              verdict.factors =
                  <<<<"Unsafe Zone: ", Hazards, " Hazards detected">>>>
                      \o (IF FireSeen THEN <<<<FireSign, " Fire Detected">>>> ELSE <<>>)
        /\ (Persons > 0 /\ Hazards = 0) =>
              verdict.factors = <<<<"Safe Crowd: ", Persons, " People monitored">>>>
        /\ verdict.level = "LOW" =>
              \A k \in DOMAIN verdict.factors : verdict.factors[k] \notin FireEntries

\* C16 witness: a person, a vehicle and a fire: the CRITICAL message, then
\* the fire entry.
C16_Witness ==
    /\ verdict # None
    /\ Persons = 1
    /\ Hazards = 2
    /\ FireSeen
    /\ Len(verdict.factors) = 2
    /\ verdict.factors[2] = <<FireSign, " Fire Threat Active">>

----------------------------------------------------------------------------
(* The level as a function of the counts, checked under SpecLevels *)

\* (person_count, hazard_count, fire presence) of a verdict of the normal path
TupleOf(v) ==
    [person_count |-> v.stats.person_count,
     hazard_count |-> v.stats.hazard_count,
     fire |-> \E k \in DOMAIN v.factors : v.factors[k] \in FireEntries]

\* C17: two verdicts with the same (person_count, hazard_count, fire
\* presence) have the same level, and when no component of the first tuple
\* exceeds that of the second, the first level is at most the second under
\* LOW < HIGH < CRITICAL.
C17_LevelMonotonic ==
    (verdict # None /\ prev_verdict # None) =>
        LET first == TupleOf(prev_verdict)
            second == TupleOf(verdict)
        IN  /\ first = second => prev_verdict.level = verdict.level
            /\ ( /\ first.person_count <= second.person_count
                 /\ first.hazard_count <= second.hazard_count
                 /\ first.fire => second.fire )
                  => RISK_LEVELS[prev_verdict.level] <= RISK_LEVELS[verdict.level]

\* C17 witness: a fire alone gave HIGH, the same fire with a person gives
\* CRITICAL.
C17_Witness ==
    /\ verdict # None
    /\ prev_verdict # None
    /\ TupleOf(prev_verdict) = [person_count |-> 0, hazard_count |-> 1, fire |-> TRUE]
    /\ TupleOf(verdict) = [person_count |-> 1, hazard_count |-> 1, fire |-> TRUE]
    /\ prev_verdict.level = "HIGH"
    /\ verdict.level = "CRITICAL"

----------------------------------------------------------------------------
(* The claims about the service, checked under SpecStream *)

\* C18: every connection has a smoother of its own: what the first
\* connection is sent for a frame is the smoothed detections, and their
\* verdict, of a smoother that saw the frames of that connection only,
\* however the frames of the other connections interleave with them.
C18_OwnSmootherPerConnection ==
    (response # None /\ response.conn = 1 /\ enable_smoothing) =>
        /\ response.safe = ToWebsocketFormat(fresh_returned.safe, TRUE)
        /\ response.unsafe = ToWebsocketFormat(fresh_returned.unsafe, TRUE)
        /\ response.risk = Evaluate(ToWebsocketFormat(fresh_returned.safe, TRUE),
                                    ToWebsocketFormat(fresh_returned.unsafe, TRUE))

\* C19: when a connection delivers its first processed frame while no other
\* connection is open, both windows of the smoother are empty before the
\* frame is appended.
C19_ResetOnNewStream ==
    [][ \A c \in Conns :
          ( /\ enable_smoothing
            /\ frame_count[c] = 0
            /\ frame_count'[c] = 1
            /\ \A other \in Conns \ {c} : conn_state[other] # "open" )
              => (safe_history = <<>> /\ unsafe_history = <<>>) ]_vars

\* the dicts are the detections, in order: same label and box, and the
\* confidence rounded to the nearest thousandth
SameDetections(dicts, detections) ==
    /\ Len(dicts) = Len(detections)
    /\ \A i \in DOMAIN dicts :
          /\ dicts[i].label = detections[i].class_name
          /\ dicts[i].bbox = detections[i].bbox
          /\ LET diff == dicts[i].confidence * detections[i].confidence.den
                            - 100 * detections[i].confidence.num
             IN  2 * diff <= detections[i].confidence.den
                    /\ -2 * diff <= detections[i].confidence.den

\* the names of the calls made for the last frame, in order
CallOps == [i \in DOMAIN calls |-> calls[i].op]

\* C20: for a processed frame the calls are, in order, the two detectors, one
\* smooth() on what the detectors gave (when smoothing is enabled) and one
\* evaluate() on the sets that smooth() returned; the response carries those
\* sets and the verdict computed from them.
C20_FrameOrder ==
    response # None =>
        /\ CallOps = <<"safe_model", "unsafe_model">>
                        \o (IF enable_smoothing THEN <<"smooth">> ELSE <<>>)
                        \o <<"evaluate">>
        /\ enable_smoothing =>
              /\ returned.op = "smooth"
              /\ returned.args = <<calls[1].gave, calls[2].gave>>
              /\ calls[3].gave = <<returned.safe, returned.unsafe>>
              /\ SameDetections(safe_result.detections, returned.safe)
              /\ SameDetections(unsafe_result.detections, returned.unsafe)
        /\ calls[Len(calls)].gave = verdict
        /\ response.safe = safe_result
        /\ response.unsafe = unsafe_result
        /\ response.risk = verdict
        /\ verdict.stats.person_count = Len(response.safe.detections)
        /\ verdict.stats.hazard_count =
              Cardinality({ i \in DOMAIN response.unsafe.detections :
                              response.unsafe.detections[i].label \in FireLabels \cup VehicleLabels })

\* C20 witness: the detectors report a fire and no person for the frame, and
\* the person of the frame before it is still in the smoothed set: the
\* verdict is CRITICAL for one person and one hazard.
C20_Witness ==
    /\ response # None
    /\ enable_smoothing
    /\ calls[1].gave = <<>>
    /\ Len(calls[2].gave) = 1
    /\ Len(response.safe.detections) = 1
    /\ response.risk.level = "CRITICAL"

----------------------------------------------------------------------------
(* The profiles router (routers/profiles.py), for the requests of one user. *)
(* Every "await db.execute" hands control back to the event loop, so the   *)
(* handlers of two requests interleave between their database steps; a     *)
(* step of the model is one statement on the profiles table together with  *)
(* the code that runs up to the next such statement.  The statements on    *)
(* the users table change nothing modelled.                                *)

\* the count at which create_profile refuses
ProfileLimit == 4

\* a row of the profiles table
ProfileRow(profile_id, is_main) == [profile_id |-> profile_id, is_main |-> is_main]

\* the table of a user with n profiles, the first of them the main profile
TableOf(n) == {ProfileRow(i, i = 1) : i \in 1..n}

\* a request arrives and its handler runs up to its first statement on profiles
StartRequest(r, handler, profile_id) ==
    /\ requests[r].at = "idle"
    /\ \A earlier \in 1..(r - 1) : requests[earlier].at # "idle"
    /\ requests' = [requests EXCEPT ![r] = [handler |-> handler, at |-> "start",
                                            read |-> None, profile_id |-> profile_id,
                                            status |-> 0]]
    /\ UNCHANGED <<profiles, next_id, outside_profiles>>

\* get_profiles: SELECT * FROM profiles WHERE user_id = ?
GetSelect(r) ==
    /\ requests[r].handler = "get_profiles"
    /\ requests[r].at = "start"
    /\ requests' = [requests EXCEPT ![r] =
                       IF profiles # {}
                       THEN [@ EXCEPT !.at = "done", !.read = profiles, !.status = 200]
                       ELSE [@ EXCEPT !.at = "empty", !.read = profiles]]
    /\ UNCHANGED <<profiles, next_id, outside_profiles>>

\* get_profiles, no rows found: INSERT the main profile
GetInsertMain(r) ==
    /\ requests[r].handler = "get_profiles"
    /\ requests[r].at = "empty"
    /\ profiles' = profiles \cup {ProfileRow(next_id + 1, TRUE)}
    /\ next_id' = next_id + 1
    /\ requests' = [requests EXCEPT ![r].at = "inserted"]
    /\ UNCHANGED <<outside_profiles>>

\* get_profiles, after the insert: SELECT the rows again and answer
GetReselect(r) ==
    /\ requests[r].handler = "get_profiles"
    /\ requests[r].at = "inserted"
    /\ requests' = [requests EXCEPT ![r] =
                       [@ EXCEPT !.at = "done", !.read = profiles, !.status = 200]]
    /\ UNCHANGED <<profiles, next_id, outside_profiles>>

\* create_profile: SELECT COUNT(*), and the refusal at the limit
CreateCount(r) ==
    LET count == Cardinality(profiles)
    IN  /\ requests[r].handler = "create_profile"
        /\ requests[r].at = "start"
        /\ requests' = [requests EXCEPT ![r] =
                           IF count >= ProfileLimit
                           THEN [@ EXCEPT !.at = "done", !.read = count, !.status = 400]
                           ELSE [@ EXCEPT !.at = "counted", !.read = count]]
        /\ UNCHANGED <<profiles, next_id, outside_profiles>>

\* create_profile, below the limit: INSERT the new profile and answer
CreateInsert(r) ==
    /\ requests[r].handler = "create_profile"
    /\ requests[r].at = "counted"
    /\ profiles' = profiles \cup {ProfileRow(next_id + 1, FALSE)}
    /\ next_id' = next_id + 1
    /\ requests' = [requests EXCEPT ![r] =
                       [@ EXCEPT !.at = "done", !.profile_id = next_id + 1, !.status = 200]]
    /\ UNCHANGED <<outside_profiles>>

\* delete_profile: SELECT is_main of the profile, 404 without a row and 400
\* for the main profile
DeleteSelect(r) ==
    LET rows == {row \in profiles : row.profile_id = requests[r].profile_id}
    IN  /\ requests[r].handler = "delete_profile"
        /\ requests[r].at = "start"
        /\ requests' = [requests EXCEPT ![r] =
                           IF rows = {}
                           THEN [@ EXCEPT !.at = "done", !.status = 404]
                           ELSE IF \E row \in rows : row.is_main
                                THEN [@ EXCEPT !.at = "done", !.status = 400]
                                ELSE [@ EXCEPT !.at = "checked"]]
        /\ UNCHANGED <<profiles, next_id, outside_profiles>>

\* delete_profile: DELETE FROM profiles WHERE profile_id = ?
DeleteRow(r) ==
    /\ requests[r].handler = "delete_profile"
    /\ requests[r].at = "checked"
    /\ profiles' = {row \in profiles : row.profile_id # requests[r].profile_id}
    /\ requests' = [requests EXCEPT ![r] = [@ EXCEPT !.at = "done", !.status = 200]]
    /\ UNCHANGED <<next_id, outside_profiles>>

\* a user with up to ProfileLimit profiles, made by earlier requests, and
\* no request in flight
ProfilesInit ==
    /\ \E n \in 0..ProfileLimit : profiles = TableOf(n) /\ next_id = n
    /\ requests = [r \in Requests |-> NoRequest]
    /\ same_inputs = "both"
    /\ varied = None
    /\ given = <<>>
    /\ EndpointIdle
    /\ EmailIdle
    /\ SmootherIdle
    /\ RiskIdle
    /\ StreamIdle

ProfilesNext ==
    \/ \E r \in Requests : StartRequest(r, "get_profiles", 0)
    \/ \E r \in Requests : StartRequest(r, "create_profile", 0)
    \/ \E r \in Requests, row \in profiles : StartRequest(r, "delete_profile", row.profile_id)
    \/ \E r \in Requests : GetSelect(r)
    \/ \E r \in Requests : GetInsertMain(r)
    \/ \E r \in Requests : GetReselect(r)
    \/ \E r \in Requests : CreateCount(r)
    \/ \E r \in Requests : CreateInsert(r)
    \/ \E r \in Requests : DeleteSelect(r)
    \/ \E r \in Requests : DeleteRow(r)

SpecProfiles == ProfilesInit /\ [][ProfilesNext]_vars

----------------------------------------------------------------------------
(* The profiles claim, checked under SpecProfiles *)

\* C21: a user never has more than 4 profiles, whatever requests are made
\* and however their database steps interleave
C21_AtMostFourProfiles == Cardinality(profiles) <= ProfileLimit

\* a create_profile request that counted 4 or more rows is answered 400
\* and has inserted nothing
C21_RefusedAtLimit ==
    \A r \in Requests :
        (requests[r].handler = "create_profile" /\ requests[r].at = "done"
            /\ requests[r].read >= ProfileLimit)
        => requests[r].status = 400 /\ requests[r].profile_id = 0

----------------------------------------------------------------------------
(* Two call sequences to smooth(), each on a TemporalSmoother of its own   *)
(* with the same configuration.  The sequences share the inputs of one     *)
(* channel and are free in the other.                                      *)

\* the frames a detector reports in these sequences: nothing, or one
\* detection at or above the detectors' own threshold of 0.5
ChannelFrames(detections) ==
    {<<>>} \cup {<<d>> : d \in {det \in detections : det.confidence >= 5}}

\* the frames with nothing or one detection, of any confidence
ChannelFramesAll(detections) == {<<>>} \cup {<<d>> : d \in detections}

\* TemporalSmoother.smooth, called once in each sequence
SmoothPair(safe_a, unsafe_a, safe_b, unsafe_b) ==
    /\ same_inputs = "safe" => safe_a = safe_b
    /\ same_inputs = "unsafe" => unsafe_a = unsafe_b
    /\ safe_history' = DequeAppend(safe_history, safe_a, window_size)
    /\ unsafe_history' = DequeAppend(unsafe_history, unsafe_a, window_size)
    /\ returned' = SmoothReturn(<<safe_a, unsafe_a>>, safe_history', unsafe_history',
                                confidence_threshold)
    /\ fresh_safe_history' = DequeAppend(fresh_safe_history, safe_b, window_size)
    /\ fresh_unsafe_history' = DequeAppend(fresh_unsafe_history, unsafe_b, window_size)
    /\ fresh_returned' = SmoothReturn(<<safe_b, unsafe_b>>, fresh_safe_history',
                                      fresh_unsafe_history', confidence_threshold)
    /\ UNCHANGED <<window_size, confidence_threshold, fresh_since, same_inputs,
                   outside_channels>>

\* TemporalSmoother.__init__ of the two instances
ChannelsInit ==
    /\ window_size \in 1..MaxWindow
    /\ confidence_threshold = DefaultThreshold
    /\ safe_history = <<>>
    /\ unsafe_history = <<>>
    /\ returned = NoReturn
    /\ fresh_safe_history = <<>>
    /\ fresh_unsafe_history = <<>>
    /\ fresh_returned = NoReturn
    /\ fresh_since = "init"
    /\ same_inputs \in {"safe", "unsafe"}
    /\ varied = None
    /\ given = <<>>
    /\ EndpointIdle
    /\ EmailIdle
    /\ ProfilesIdle
    /\ RiskIdle
    /\ StreamIdle

ChannelsNext ==
    \E safe_a, safe_b \in ChannelFrames(SafeDetections),
       unsafe_a, unsafe_b \in ChannelFrames(UnsafeDetections) :
        SmoothPair(safe_a, unsafe_a, safe_b, unsafe_b)

SpecChannels == ChannelsInit /\ [][ChannelsNext]_vars

\* C22: two call sequences with the same SAFE inputs get the same smoothed
\* SAFE list at every call whatever their UNSAFE inputs, and two with the
\* same UNSAFE inputs the same smoothed UNSAFE list whatever their SAFE inputs
C22_ChannelsIndependent ==
    /\ same_inputs = "safe" => returned.safe = fresh_returned.safe
    /\ same_inputs = "unsafe" => returned.unsafe = fresh_returned.unsafe

\* the sequences share their SAFE inputs, a safe class is returned, and the
\* UNSAFE lists returned differ
C22_Witness ==
    /\ same_inputs = "safe"
    /\ returned.op = "smooth"
    /\ returned.safe # <<>>
    /\ returned.unsafe # fresh_returned.unsafe
    /\ unsafe_history # fresh_unsafe_history

----------------------------------------------------------------------------
(* RiskEngine.evaluate on two inputs: safe_result and unsafe_result, and a *)
(* second input made from them by changing the values of a detection.      *)

\* the dicts of safe detections: two labels, two confidences, two boxes
SignalSafeDicts ==
    { [label |-> "person_walking", confidence |-> 9, bbox |-> BoxA],
      [label |-> "person_walking", confidence |-> 1, bbox |-> BoxB],
      [label |-> "person_sitting", confidence |-> 9, bbox |-> BoxA] }

\* the dicts of unsafe detections: fire, a vehicle and a label that is no hazard
SignalUnsafeDicts ==
    { [label |-> "fire", confidence |-> 9, bbox |-> BoxA],
      [label |-> "fire", confidence |-> 1, bbox |-> BoxB],
      [label |-> "vehicle_car", confidence |-> 9, bbox |-> BoxA],
      [label |-> "smoke", confidence |-> 9, bbox |-> BoxA],
      [label |-> "smoke", confidence |-> 1, bbox |-> BoxB] }

\* the results with up to MaxEntries detections
SignalResults(dicts) == { [detections |-> dets] : dets \in SeqsUpTo(dicts, MaxEntries) }

\* the second input as it stands: the first input until a value is changed
Current(how) ==
    IF varied = None
    THEN [how |-> how, safe |-> safe_result, unsafe |-> unsafe_result, verdict |-> verdict]
    ELSE varied

\* the second input with entry i of a channel replaced by d, and its verdict
Replaced(cur, channel, i, d) ==
    LET safe == IF channel = "safe"
                THEN [detections |-> [cur.safe.detections EXCEPT ![i] = d]]
                ELSE cur.safe
        unsafe == IF channel = "unsafe"
                  THEN [detections |-> [cur.unsafe.detections EXCEPT ![i] = d]]
                  ELSE cur.unsafe
    IN  [how |-> cur.how, safe |-> safe, unsafe |-> unsafe,
         verdict |-> Evaluate(safe, unsafe)]

\* evaluate is called on an input in which one detection has another
\* confidence and bounding box, its label kept
VaryValues(channel, i, d) ==
    LET cur == Current("values")
        dets == IF channel = "safe" THEN cur.safe.detections ELSE cur.unsafe.detections
    IN  /\ verdict # None
        /\ cur.how = "values"
        /\ i \in DOMAIN dets
        /\ d # dets[i]
        /\ d.label = dets[i].label
        /\ varied' = Replaced(cur, channel, i, d)
        /\ UNCHANGED <<risk_vars, outside_compare>>

\* evaluate is called on an input in which one safe detection has another
\* label, its confidence and bounding box kept
VarySafeLabel(i, d) ==
    LET cur == Current("safe_labels")
        dets == cur.safe.detections
    IN  /\ verdict # None
        /\ cur.how = "safe_labels"
        /\ i \in DOMAIN dets
        /\ d # dets[i]
        /\ d.confidence = dets[i].confidence
        /\ d.bbox = dets[i].bbox
        /\ varied' = Replaced(cur, "safe", i, d)
        /\ UNCHANGED <<risk_vars, outside_compare>>

\* risk_engine.evaluate(safe_result, unsafe_result) on the first input
CallFirst ==
    /\ verdict = None
    /\ verdict' = Evaluate(safe_result, unsafe_result)
    /\ UNCHANGED <<safe_result, unsafe_result, prev_verdict, varied, outside_compare>>

SignalsInit ==
    /\ safe_result \in SignalResults(SignalSafeDicts)
    /\ unsafe_result \in SignalResults(SignalUnsafeDicts)
    /\ verdict = None
    /\ prev_verdict = None
    /\ varied = None
    /\ given = <<>>
    /\ EndpointIdle
    /\ EmailIdle
    /\ ProfilesIdle
    /\ same_inputs = "both"
    /\ SmootherIdle
    /\ StreamIdle

SignalsNext ==
    \/ CallFirst
    \/ \E i \in 1..MaxEntries, d \in SignalSafeDicts : VaryValues("safe", i, d)
    \/ \E i \in 1..MaxEntries, d \in SignalUnsafeDicts : VaryValues("unsafe", i, d)
    \/ \E i \in 1..MaxEntries, d \in SignalSafeDicts : VarySafeLabel(i, d)

SpecSignals == SignalsInit /\ [][SignalsNext]_vars

\* C23: two inputs of evaluate that differ only in the confidence or
\* bounding box of their detections, or only in the labels of their safe
\* detections, get identical verdicts
C23_OnlyCountsAndUnsafeLabels == varied # None => varied.verdict = verdict

\* persons and a fire, every value of the second input's detections changed
\* to a confidence under the detector's threshold, and the verdict CRITICAL
C23_Witness ==
    /\ varied # None
    /\ varied.how = "values"
    /\ verdict.level = "CRITICAL"
    /\ Len(safe_result.detections) > 0
    /\ \A i \in DOMAIN safe_result.detections :
           /\ safe_result.detections[i].confidence = 9
           /\ varied.safe.detections[i].confidence = 1
    /\ \E i \in DOMAIN unsafe_result.detections :
           /\ unsafe_result.detections[i].label = "fire"
           /\ unsafe_result.detections[i].bbox # varied.unsafe.detections[i].bbox

\* safe detections relabelled and the verdict kept
C23_WitnessLabels ==
    /\ varied # None
    /\ varied.how = "safe_labels"
    /\ varied.safe # safe_result

----------------------------------------------------------------------------
(* One TemporalSmoother and the arguments of all its smooth() calls *)

\* the frames of these calls: each detector reports nothing or one detection
LoggedFrames == ChannelFramesAll(SafeDetections) \X ChannelFramesAll(UnsafeDetections)

\* TemporalSmoother.smooth, the caller keeping its arguments
SmoothLogged(safe_detections, unsafe_detections) ==
    /\ Len(given) < MaxCalls
    /\ safe_history' = DequeAppend(safe_history, safe_detections, window_size)
    /\ unsafe_history' = DequeAppend(unsafe_history, unsafe_detections, window_size)
    /\ returned' = SmoothReturn(<<safe_detections, unsafe_detections>>, safe_history',
                                unsafe_history', confidence_threshold)
    /\ given' = Append(given, <<safe_detections, unsafe_detections>>)
    /\ UNCHANGED <<window_size, confidence_threshold, fresh_safe_history,
                   fresh_unsafe_history, fresh_returned, fresh_since, outside_log>>

LoggedInit ==
    /\ window_size \in 1..MaxWindow
    /\ confidence_threshold = DefaultThreshold
    /\ safe_history = <<>>
    /\ unsafe_history = <<>>
    /\ returned = NoReturn
    /\ fresh_safe_history = <<>>
    /\ fresh_unsafe_history = <<>>
    /\ fresh_returned = NoReturn
    /\ fresh_since = "init"
    /\ given = <<>>
    /\ EndpointIdle
    /\ EmailIdle
    /\ ProfilesIdle
    /\ same_inputs = "both"
    /\ varied = None
    /\ RiskIdle
    /\ StreamIdle

LoggedNext == \E p \in LoggedFrames : SmoothLogged(p[1], p[2])

SpecLogged == LoggedInit /\ [][LoggedNext]_vars

\* the class names of a frame
FrameClasses(frame) == {frame[i].class_name : i \in DOMAIN frame}

\* the last detection of a class in a frame
LastOf(class_name, frame) ==
    LET at == {i \in DOMAIN frame : frame[i].class_name = class_name}
    IN  frame[CHOOSE i \in at : \A j \in at : j <= i]

\* every raw confidence handed to smooth() so far is at least the threshold
AllConfident ==
    \A t \in DOMAIN given : \A ch \in 1..2 : \A i \in DOMAIN given[t][ch] :
        given[t][ch][i].confidence >= confidence_threshold

\* the list the last call returned for a channel (1 safe, 2 unsafe)
ReturnedFor(ch) == IF ch = 1 THEN returned.safe ELSE returned.unsafe

\* C24: with every raw confidence at least the threshold, a class detected
\* in the frame of call t and in no later frame is in the channel's output,
\* with the bbox of call t, at the calls t .. t+W-1 and is not in the output
\* of call t+W
C24_VanishedClassPersists ==
    LET n == Len(given)
    IN  AllConfident =>
        \A ch \in 1..2 : \A t \in 1..n : \A k \in FrameClasses(given[t][ch]) :
            (\A u \in (t + 1)..n : k \notin FrameClasses(given[u][ch])) =>
                /\ n - t <= window_size - 1 =>
                       \E i \in DOMAIN ReturnedFor(ch) :
                           /\ ReturnedFor(ch)[i].class_name = k
                           /\ ReturnedFor(ch)[i].bbox = LastOf(k, given[t][ch]).bbox
                /\ n - t = window_size =>
                       \A i \in DOMAIN ReturnedFor(ch) : ReturnedFor(ch)[i].class_name # k

\* window of 2: a fire in the frame of call t, none at t+1 and t+2, and the
\* call t+2 has just returned without it
C24_Witness ==
    LET n == Len(given)
    IN  /\ window_size = 2
        /\ n >= 3
        /\ AllConfident
        /\ "fire" \in FrameClasses(given[n - 2][2])
        /\ "fire" \notin FrameClasses(given[n - 1][2])
        /\ "fire" \notin FrameClasses(given[n][2])
        /\ \A i \in DOMAIN returned.unsafe : returned.unsafe[i].class_name # "fire"

\* window of 2: a fire in the frame of call t, none at t+1, and the call t+1
\* has returned it although its own frame is empty
C24_WitnessCarried ==
    LET n == Len(given)
    IN  /\ window_size = 2
        /\ n >= 2
        /\ AllConfident
        /\ "fire" \in FrameClasses(given[n - 1][2])
        /\ given[n][2] = <<>>
        /\ \E i \in DOMAIN returned.unsafe : returned.unsafe[i].class_name = "fire"

----------------------------------------------------------------------------
(* The counts in the verdict of process_frame, checked under SpecStream *)

\* the class names of a list of detections
NamesOf(detections) == {detections[i].class_name : i \in DOMAIN detections}

\* C25: with smoothing enabled, person_count and hazard_count of the verdict
\* of process_frame are the numbers of distinct class names smooth() retained
\* from the windows, not the numbers of objects in the frame
C25_CountsAreRetainedClasses ==
    (response # None /\ enable_smoothing) =>
        /\ verdict.stats.person_count = Cardinality(NamesOf(returned.safe))
        /\ NamesOf(returned.safe) \subseteq ClassesIn(safe_history)
        /\ verdict.stats.person_count <= Cardinality(ClassesIn(safe_history))
        /\ verdict.stats.hazard_count = Cardinality(NamesOf(returned.unsafe))
        /\ NamesOf(returned.unsafe) \subseteq ClassesIn(unsafe_history)

\* the detectors report nothing for the frame, the frame before it showed two
\* persons of one class, and the verdict counts one person
C25_Witness ==
    /\ response # None
    /\ enable_smoothing
    /\ calls[1].gave = <<>>
    /\ calls[2].gave = <<>>
    /\ Len(safe_history) = 2
    /\ Len(safe_history[1]) = 2
    /\ verdict.stats.person_count = 1

----------------------------------------------------------------------------
(* MLService.process_frame with the frames it rejects and the exceptions   *)
(* it catches.  A message is the sequence of the pieces of its text; <<>>  *)
(* is the empty text, which Python takes for false like None.              *)

\* a or b, for texts
TextOr(a, b) == IF a = <<>> THEN b ELSE a

\* the dict _empty_response builds before it looks at error_msg
EmptyResponseBase ==
    [safe |-> [detections |-> <<>>],
     unsafe |-> [detections |-> <<>>],
     risk |-> [level |-> "LOW", score |-> 0, factors |-> <<>>]]

\* response["error"] = error_msg
WithError(resp, error_msg) ==
    [k \in DOMAIN resp \cup {"error"} |->
        IF k = "error" THEN error_msg ELSE resp[k]]

\* a plausible slip: the error message is dropped
EmptyResponseSilent(error_msg) == EmptyResponseBase

\* MLService._empty_response
EmptyResponse(error_msg) ==
    IF error_msg # <<>> THEN WithError(EmptyResponseBase, error_msg) ELSE EmptyResponseBase

\* what happened to a frame: the dict returned (or Raised), the windows
\* afterwards, and whether smooth() was called
FrameOutcome(outcome, sh, uh, smoothed) ==
    [outcome |-> outcome, safe_history |-> sh, unsafe_history |-> uh, smoothed |-> smoothed]

\* the try block of process_frame: predict, to_websocket_format, evaluate.
\* fault names the call that raises: "detector" (a model call, before
\* smooth), "format" (to_websocket_format, after smooth) or "none"
FrameTry(enabled, frame, fault, sh, uh, size, threshold) ==
    LET new_sh == IF enabled THEN DequeAppend(sh, frame[1], size) ELSE sh
        new_uh == IF enabled THEN DequeAppend(uh, frame[2], size) ELSE uh
        smoothed == SmoothReturn(frame, new_sh, new_uh, threshold)
        result == Predict(enabled, frame, smoothed)
        websocket_safe == ToWebsocketFormat(result[1], enabled)
        websocket_unsafe == ToWebsocketFormat(result[2], enabled)
        risk_data == Evaluate(websocket_safe, websocket_unsafe)
    IN  CASE fault = "detector" -> FrameOutcome(Raised, sh, uh, FALSE)
          [] fault = "format" -> FrameOutcome(Raised, new_sh, new_uh, enabled)
          [] OTHER -> FrameOutcome([safe |-> websocket_safe, unsafe |-> websocket_unsafe,
                                    risk |-> risk_data], new_sh, new_uh, enabled)

\* a plausible slip: no except clause around the try block
FrameExceptNothing(tried) == tried

\* the except clause of process_frame
FrameExcept(tried) ==
    IF tried.outcome = Raised
    THEN [tried EXCEPT !.outcome = EmptyResponse(<<"Processing error: ", "str(e)[:50]">>)]
    ELSE tried

\* MLService.process_frame.  kind is what the caller passes for a frame:
\* "not_array", "empty" (an array of size 0) or "array"
MLProcessFrame(kind, service, init_error, enabled, frame, fault, sh, uh, size, threshold) ==
    CASE kind = "not_array" ->
           FrameOutcome(EmptyResponse(<<"Invalid frame type">>), sh, uh, FALSE)
      [] kind = "empty" ->
           FrameOutcome(EmptyResponse(<<"Empty frame">>), sh, uh, FALSE)
      [] service = "none" ->
           FrameOutcome(EmptyResponse(TextOr(init_error, <<"ML Service not initialized">>)),
                        sh, uh, FALSE)
      [] OTHER ->
           FrameExcept(FrameTry(enabled, frame, fault, sh, uh, size, threshold))

\* what a caller may pass for a frame
FrameKinds == {"not_array", "empty", "array"}
\* the calls of the try block that may raise
Faults == {"none", "detector", "format"}

\* ml_service.process_frame(frame, frame_index)
CallProcessFrame(kind, frame, fault) ==
    LET out == MLProcessFrame(kind, inference_service, initialization_error,
                              enable_smoothing, frame, fault, safe_history,
                              unsafe_history, window_size, confidence_threshold)
    IN  /\ safe_history' = out.safe_history
        /\ unsafe_history' = out.unsafe_history
        /\ returned' = IF out.smoothed
                       THEN SmoothReturn(frame, out.safe_history, out.unsafe_history,
                                         confidence_threshold)
                       ELSE returned
        /\ last' = [kind |-> kind, fault |-> fault, result |-> out.outcome,
                    before |-> <<safe_history, unsafe_history>>]
        /\ UNCHANGED <<window_size, confidence_threshold, fresh_safe_history,
                       fresh_unsafe_history, fresh_returned, fresh_since,
                       inference_service, initialization_error, frame_skip,
                       frame_skip_counter, frame_error_count, valid_seen, alert_count,
                       risk_vars, stream_vars, outside_endpoint>>

\* MLService.__init__: the inference service is constructed, or the
\* exception of the attempt is kept as initialization_error (str(e), which
\* may be the empty text)
ServiceInit ==
    /\ window_size \in 1..MaxWindow
    /\ confidence_threshold = DefaultThreshold
    /\ safe_history = <<>>
    /\ unsafe_history = <<>>
    /\ returned = NoReturn
    /\ fresh_safe_history = <<>>
    /\ fresh_unsafe_history = <<>>
    /\ fresh_returned = NoReturn
    /\ fresh_since = "init"
    /\ \/ inference_service = "ready" /\ initialization_error = <<>>
       \/ inference_service = "none"
             /\ initialization_error \in {<<>>, <<"Safe model not found: ", "path">>}
    /\ frame_skip = 1
    /\ frame_skip_counter = [c \in Conns |-> 0]
    /\ frame_error_count = [c \in Conns |-> 0]
    /\ valid_seen = [c \in Conns |-> 0]
    /\ alert_count = 0
    /\ last = None
    /\ ProfilesIdle
    /\ same_inputs = "both"
    /\ varied = None
    /\ given = <<>>
    /\ EmailIdle
    /\ RiskIdle
    /\ StreamIdle

ServiceNext ==
    \E kind \in FrameKinds, frame \in StreamFrames, fault \in Faults :
        CallProcessFrame(kind, frame, fault)

SpecService == ServiceInit /\ [][ServiceNext]_vars

\* the last call was one process_frame answers without inference
Rejected(call) ==
    call.kind # "array" \/ inference_service = "none"

\* the last call's result is the empty response with an error message
IsEmptyWithError(result) ==
    /\ DOMAIN result = {"safe", "unsafe", "risk", "error"}
    /\ result.safe.detections = <<>>
    /\ result.unsafe.detections = <<>>
    /\ result.risk = [level |-> "LOW", score |-> 0, factors |-> <<>>]
    /\ result.error # <<>>

\* every call returns a dict, and the empty one with an error message when
\* the frame was rejected or a call of the try block raised
C26_ReturnsADict ==
    last # None =>
        /\ last.result # Raised
        /\ (Rejected(last) \/ last.fault # "none") => IsEmptyWithError(last.result)
        /\ Rejected(last) => <<safe_history, unsafe_history>> = last.before

\* C26: process_frame never raises; a frame that is no array, an empty
\* frame, a service without inference service and an exception in the try
\* block all get the empty response (no detections, LOW, 0.0, no factors)
\* with an error message; a frame rejected before inference leaves both
\* history windows as they were
C26_NeverRaises ==
    /\ []C26_ReturnsADict
    /\ [][Rejected(last') => UNCHANGED <<safe_history, unsafe_history, returned>>]_vars

\* a frame that is no array is rejected while the windows hold detections
C26_Witness ==
    /\ last # None
    /\ last.kind = "not_array"
    /\ inference_service = "ready"
    /\ Flatten(safe_history) # <<>>
    /\ IsEmptyWithError(last.result)

\* the detector raised and the empty response names a processing error
C26_WitnessRaised ==
    /\ last # None
    /\ last.kind = "array"
    /\ last.fault = "detector"
    /\ last.result.error[1] = "Processing error: "

----------------------------------------------------------------------------
(* The receive loop of main.websocket_endpoint.  A step is one iteration   *)
(* for a connection: receive, validate, skip or decode, process_frame,     *)
(* save, send.  process_frame runs without an await, so the iterations of  *)
(* two connections meet the shared smoother one after the other; what an   *)
(* iteration saves depends on its own result only.                         *)

\* a plausible slip: the counter has to exceed FRAME_SKIP
ShouldProcessFrameStrict(counter, skip) ==
    IF counter + 1 > skip
    THEN [process |-> TRUE, counter |-> 0]
    ELSE [process |-> FALSE, counter |-> counter + 1]

\* should_process_frame_local: what it returns and the counter it leaves
ShouldProcessFrameLocal(counter, skip) ==
    IF counter + 1 >= skip
    THEN [process |-> TRUE, counter |-> 0]
    ELSE [process |-> FALSE, counter |-> counter + 1]

\* the activity types evaluate returns, with their characters
ActivityChars ==
    [ a \in {"Safe Activity", "Unsafe Activity"} |->
        IF a = "Safe Activity"
        THEN <<"S", "a", "f", "e", " ", "A", "c", "t", "i", "v", "i", "t", "y">>
        ELSE <<"U", "n", "s", "a", "f", "e", " ", "A", "c", "t", "i", "v", "i", "t", "y">> ]

\* 'unsafe' if 'Unsafe' in activity_type else 'safe'
DetectionCategory(activity_type) ==
    IF Contains(<<"U", "n", "s", "a", "f", "e">>, ActivityChars[activity_type])
    THEN "unsafe" ELSE "safe"

\* d.get('class'), as a Python value
GetClass(d) == IF "class" \in DOMAIN d THEN PyStr(d["class"]) ELSE PyNone

\* hazard_type of the detections row
HazardType(detection_category, unsafe_detections) ==
    IF detection_category = "unsafe"
    THEN IF \E i \in DOMAIN unsafe_detections : GetClass(unsafe_detections[i]) = PyStr("fire")
         THEN PyStr("fire")
         ELSE IF Len(unsafe_detections) > 0
              THEN GetClass(unsafe_detections[1])
              ELSE PyNone
    ELSE PyNone

\* a plausible slip: every processed frame is saved
ShouldSaveAlways(risk_score) == risk_score >= 0

\* if risk_score > 0
ShouldSave(risk_score) == risk_score > 0

\* if risk_level in ['HIGH', 'CRITICAL'] and detection_category == 'unsafe'
ShouldAlert(risk_level, detection_category) ==
    risk_level \in {"HIGH", "CRITICAL"} /\ detection_category = "unsafe"

\* alert_title
AlertTitle(risk_level, hazard_type) ==
    IF Truthy(hazard_type)
    THEN <<risk_level, " Risk: ", hazard_type.value>>
    ELSE <<risk_level, " Risk Detected">>

\* the error JSON the loop sends on its own
ErrorJson(message) ==
    WithError([safe |-> [detections |-> <<>>], unsafe |-> [detections |-> <<>>],
               risk |-> [level |-> "LOW", score |-> 0, factors |-> <<>>]], message)

\* what an iteration did for a frame that was not passed to process_frame
NotProcessed(c, nth, passed, sent) ==
    [conn |-> c, nth |-> nth, passed |-> passed, result |-> None, row |-> None,
     inserted |-> FALSE, alert |-> None, sent |-> sent]

\* the part of the loop after process_frame: the detections row, the alert
\* task and what is sent.  db_ok tells whether the INSERT succeeds
SaveAndSend(c, nth, result, frame_number, db_ok, alerts) ==
    IF "error" \in DOMAIN result
    THEN [conn |-> c, nth |-> nth, passed |-> TRUE, result |-> result, row |-> None,
          inserted |-> FALSE, alert |-> None, sent |-> result]
    ELSE LET risk_data == result.risk
             risk_score == DictGet(risk_data, "score", 0)
             risk_level == DictGet(risk_data, "level", "LOW")
             activity_type == DictGet(risk_data, "activity_type", "Safe Activity")
             detection_category == DetectionCategory(activity_type)
             hazard_type == HazardType(detection_category, result.unsafe.detections)
             row == [frame_number |-> frame_number,
                     detection_category |-> detection_category,
                     hazard_type |-> hazard_type,
                     risk_level |-> risk_level,
                     risk_score |-> risk_score]
         IN  IF ~ShouldSave(risk_score)
             THEN [conn |-> c, nth |-> nth, passed |-> TRUE, result |-> result,
                   row |-> None, inserted |-> FALSE, alert |-> None, sent |-> result]
             ELSE IF ~db_ok
             THEN [conn |-> c, nth |-> nth, passed |-> TRUE, result |-> result,
                   row |-> row, inserted |-> FALSE, alert |-> None,
                   sent |-> ErrorJson(<<"Processing error: ", "str(proc_err)[:50]">>)]
             ELSE [conn |-> c, nth |-> nth, passed |-> TRUE, result |-> result,
                   row |-> row, inserted |-> TRUE,
                   alert |-> IF ShouldAlert(risk_level, detection_category)
                             THEN [alert_id |-> alerts + 1, severity |-> risk_level,
                                   title |-> AlertTitle(risk_level, hazard_type)]
                             ELSE None,
                   sent |-> result]

\* websocket_endpoint accepts connection c; without an inference service it
\* sends the error JSON and closes
EndpointAccept(c) ==
    /\ conn_state[c] = "waiting"
    /\ \A earlier \in 1..(c - 1) : conn_state[earlier] # "waiting"
    /\ conn_state' = [conn_state EXCEPT ![c] =
                         IF inference_service = "none" THEN "ended" ELSE "open"]
    /\ UNCHANGED <<enable_smoothing, frame_count, calls, response, smoother_vars, risk_vars,
                   service_vars>>

\* what cv2.imdecode makes of the data: None, an exception, or a frame
Undecoded(kind) == [kind |-> kind, frame |-> <<<<>>, <<>>>>]
Decoded ==
    {Undecoded("none"), Undecoded("raises")}
        \cup {[kind |-> "frame", frame |-> f] : f \in StreamFrames}

\* one iteration of the loop for connection c
Receive(c, data, decoded, fault, db_ok) ==
    LET nth == valid_seen[c] + 1
        skip == ShouldProcessFrameLocal(frame_skip_counter[c], frame_skip)
        out == MLProcessFrame("array", inference_service, initialization_error,
                              enable_smoothing, decoded.frame, fault, safe_history,
                              unsafe_history, window_size, confidence_threshold)
        processed == data = "valid" /\ skip.process /\ decoded.kind = "frame"
    IN  /\ conn_state[c] = "open"
        /\ SumSeq(valid_seen) + SumSeq(frame_error_count) < MaxMessages
        \* an input the iteration never looks at is given one value only
        /\ (data = "invalid" \/ ~skip.process) => decoded.kind = "none"
        /\ ~processed => fault = "none"
        /\ (~processed \/ fault # "none") => db_ok
        /\ IF data = "invalid"
           THEN /\ frame_error_count' = [frame_error_count EXCEPT ![c] = @ + 1]
                /\ conn_state' = [conn_state EXCEPT ![c] =
                                     IF frame_error_count[c] + 1 > 10 THEN "ended" ELSE @]
                /\ last' = [conn |-> c, nth |-> 0, passed |-> FALSE, result |-> None,
                            row |-> None, inserted |-> FALSE, alert |-> None, sent |-> None]
                /\ UNCHANGED <<valid_seen, frame_skip_counter, frame_count, alert_count>>
           ELSE /\ frame_error_count' = [frame_error_count EXCEPT ![c] = 0]
                /\ valid_seen' = [valid_seen EXCEPT ![c] = nth]
                /\ frame_skip_counter' = [frame_skip_counter EXCEPT ![c] = skip.counter]
                /\ frame_count' = [frame_count EXCEPT ![c] = @ + 1]
                /\ last' = CASE ~skip.process -> NotProcessed(c, nth, FALSE, None)
                             [] decoded.kind = "none" ->
                                  NotProcessed(c, nth, TRUE, ErrorJson(<<"Failed to decode frame">>))
                             [] decoded.kind = "raises" -> NotProcessed(c, nth, TRUE, None)
                             [] OTHER -> SaveAndSend(c, nth, out.outcome, frame_count[c],
                                                     db_ok, alert_count)
                /\ alert_count' = IF last'.alert # None THEN alert_count + 1 ELSE alert_count
                /\ UNCHANGED conn_state
        /\ IF processed
           THEN /\ safe_history' = out.safe_history
                /\ unsafe_history' = out.unsafe_history
                /\ returned' = IF out.smoothed
                               THEN SmoothReturn(decoded.frame, out.safe_history,
                                                 out.unsafe_history, confidence_threshold)
                               ELSE returned
           ELSE UNCHANGED <<safe_history, unsafe_history, returned>>
        /\ UNCHANGED <<window_size, confidence_threshold, fresh_safe_history,
                       fresh_unsafe_history, fresh_returned, fresh_since,
                       inference_service, initialization_error, frame_skip,
                       enable_smoothing, calls, response, risk_vars, outside_endpoint>>

\* the service as MLService.__init__ and the configuration leave it, and no
\* connection yet
EndpointInit ==
    /\ SmootherIdle
    /\ RiskIdle
    /\ StreamIdle
    /\ \/ inference_service = "ready" /\ initialization_error = <<>>
       \/ inference_service = "none" /\ initialization_error = <<"Safe model not found: ", "path">>
    /\ frame_skip \in 1..MaxSkip
    /\ frame_skip_counter = [c \in Conns |-> 0]
    /\ frame_error_count = [c \in Conns |-> 0]
    /\ valid_seen = [c \in Conns |-> 0]
    /\ alert_count = 0
    /\ last = None
    /\ ProfilesIdle
    /\ same_inputs = "both"
    /\ varied = None
    /\ given = <<>>
    /\ EmailIdle

EndpointNext ==
    \/ \E c \in Conns : EndpointAccept(c)
    \/ \E c \in Conns : Disconnect(c)
    \* data that is no frame
    \/ \E c \in Conns : Receive(c, "invalid", Undecoded("none"), "none", TRUE)
    \* a valid frame, skipped or decoded, processed and saved without a fault
    \/ \E c \in Conns, decoded \in Decoded : Receive(c, "valid", decoded, "none", TRUE)
    \* a call of process_frame's try block raises
    \/ \E c \in Conns, decoded \in Decoded, fault \in Faults \ {"none"} :
          Receive(c, "valid", decoded, fault, TRUE)
    \* the INSERT into detections raises
    \/ \E c \in Conns, decoded \in Decoded : Receive(c, "valid", decoded, "none", FALSE)

SpecEndpoint == EndpointInit /\ [][EndpointNext]_vars

----------------------------------------------------------------------------
(* The claims about the receive loop, checked under SpecEndpoint *)

\* the last iteration passed a frame to process_frame and got no error
ProcessedClean ==
    /\ last # None
    /\ last.result # None
    /\ "error" \notin DOMAIN last.result

C27_WitnessLow ==
    /\ ProcessedClean
    /\ last.result.risk.level = "LOW"
    /\ last.row # None
    /\ last.inserted
    /\ last.alert = None

\* the labels of the unsafe detections of the last result
LastUnsafeLabels ==
    {last.result.unsafe.detections[i].label : i \in DOMAIN last.result.unsafe.detections}

\* C28: a frame saved as unsafe whose unsafe detections include a fire is
\* stored with hazard_type 'fire'; otherwise, with at least one unsafe
\* detection, with the class name of the first unsafe detection
C28_HazardTypeIsFire ==
    (ProcessedClean /\ last.row # None /\ last.row.detection_category = "unsafe") =>
        IF "fire" \in LastUnsafeLabels
        THEN last.row.hazard_type = PyStr("fire")
        ELSE Len(last.result.unsafe.detections) > 0 =>
                last.row.hazard_type = PyStr(last.result.unsafe.detections[1].label)

\* what the code stores instead: no hazard_type
C28_HazardTypeIsNone ==
    (ProcessedClean /\ last.row # None) => last.row.hazard_type = PyNone

\* C29: on each connection the frame_skip_counter counts the valid frames
\* since the last processed one, exactly the N-th, 2N-th, .. valid frames
\* are passed to decoding, a skipped frame leaves the smoother alone, and an
\* iteration of one connection leaves the counters of the others alone
C29_State ==
    /\ \A c \in Conns : frame_skip_counter[c] = valid_seen[c] % frame_skip
    /\ (last # None /\ last.nth > 0) => (last.passed <=> last.nth % frame_skip = 0)

C29_Step ==
    /\ \A c \in Conns :
          frame_skip_counter'[c] # frame_skip_counter[c] => last'.conn = c
    /\ (last' # None /\ last'.nth > 0 /\ ~last'.passed) =>
          UNCHANGED <<safe_history, unsafe_history, returned>>
    /\ \A c \in Conns :
          valid_seen'[c] # valid_seen[c] =>
             /\ valid_seen'[c] = valid_seen[c] + 1
             /\ last'.conn = c
             /\ last'.nth = valid_seen'[c]

C29_SkipPerConnection == []C29_State /\ [][C29_Step]_vars

\* FRAME_SKIP = 2: connection 1 has had its second valid frame processed
\* while connection 2 is in the middle of its count
C29_Witness ==
    /\ frame_skip = 2
    /\ last # None
    /\ last.conn = 1
    /\ last.nth = 2
    /\ last.passed
    /\ last.result # None
    /\ valid_seen[2] = 1
    /\ frame_skip_counter[2] = 1


\* ======================================================================
\* Alert e-mails: main.send_alert_email, POST /alerts/config
\* ======================================================================

\* ticks of the event loop's clock in one second: loop.time() is a float
TicksPerSecond == 2

\* int(asyncio.get_event_loop().time()): whole seconds, the fraction dropped
NowSeconds(ticks) == ticks \div TicksPerSecond

\* same as RateLimited, off by one second
RateLimitedLoose(now, last_sent, limit) == now - last_sent < limit - 1

\* now - last < config.EMAIL_RATE_LIMIT_SECONDS
RateLimited(now, last_sent, limit) == now - last_sent < limit

\* a or b or c over strings: the first that is not empty, else the last
FirstNonEmpty(a, b, c) == IF a # "" THEN a ELSE IF b # "" THEN b ELSE c

\* payload_to or ALERTS_CFG.get("to") or config.ALERT_EMAIL_TO
ToAddr(payload_to) == FirstNonEmpty(payload_to, alerts_cfg.to, mail_config.alert_email_to)

\* save_alerts_config: UPDATE of the single row; an error is logged and swallowed
SaveAlertsConfig(cfg, db_ok) == IF db_ok THEN cfg ELSE persisted

\* the recipients a caller may name
Recipients == {"", "ops@site.org"}

\* what a call of send_alert_email did
Attempted(payload_to, now, smtp_called, ok) ==
    [payload_to |-> payload_to, enabled |-> alerts_cfg.enabled,
     to_addr |-> ToAddr(payload_to), now |-> now,
     last_before |-> alerts_cfg.last_sent, persisted_before |-> persisted.last_sent,
     smtp_called |-> smtp_called, returned |-> ok]

\* send_alert_email(payload_to, subject, body); smtp_ok is what send_email_smtp returns
SendAlertEmail(payload_to, smtp_ok, db_ok) ==
    LET now == NowSeconds(clock)
        refused == \/ ~alerts_cfg.enabled
                   \/ ToAddr(payload_to) = ""
                   \/ RateLimited(now, alerts_cfg.last_sent, mail_config.rate_limit)
        cfg == [alerts_cfg EXCEPT !.last_sent = now]
    IN  /\ refused => smtp_ok /\ db_ok
        /\ smtp_ok \/ db_ok
        /\ IF refused
              THEN /\ attempt' = Attempted(payload_to, now, FALSE, FALSE)
                   /\ UNCHANGED <<alerts_cfg, persisted, sends>>
              ELSE IF smtp_ok
              THEN /\ alerts_cfg' = cfg
                   /\ persisted' = SaveAlertsConfig(cfg, db_ok)
                   /\ sends' = IF sends = <<>> THEN <<clock>>
                                               ELSE <<sends[Len(sends)], clock>>
                   /\ attempt' = Attempted(payload_to, now, TRUE, TRUE)
              ELSE /\ attempt' = Attempted(payload_to, now, TRUE, FALSE)
                   /\ UNCHANGED <<alerts_cfg, persisted, sends>>
        /\ UNCHANGED <<mail_config, clock, outside_email>>

\* POST /alerts/config with an address that passes the check, or none (to is None)
UpdateAlertsConfig(enabled, to, db_ok) ==
    LET cfg == [alerts_cfg EXCEPT !.enabled = enabled,
                                  !.to = IF to = None THEN @ ELSE to.value]
    IN  /\ alerts_cfg' = cfg
        /\ persisted' = SaveAlertsConfig(cfg, db_ok)
        /\ attempt' = None
        /\ UNCHANGED <<mail_config, clock, sends, outside_email>>

\* the event loop's clock advances
Tick ==
    /\ clock < MaxClock
    /\ clock' = clock + 1
    /\ UNCHANGED <<mail_config, alerts_cfg, persisted, sends, attempt, outside_email>>

\* the process starts: ALERTS_CFG = load_alerts_config()
EmailInit ==
    /\ SmootherIdle /\ RiskIdle /\ StreamIdle
    /\ ProfilesIdle /\ EndpointIdle
    /\ same_inputs = "both" /\ varied = None /\ given = <<>>
    /\ mail_config \in [rate_limit : 1..MaxRateLimit, alert_email_to : Recipients]
    /\ \E enabled \in BOOLEAN, to \in Recipients, last_sent \in 0..1 :
          alerts_cfg = [enabled |-> enabled, to |-> to, last_sent |-> last_sent]
    /\ persisted = alerts_cfg
    /\ clock = 0
    /\ sends = <<>>
    /\ attempt = None

EmailNext ==
    \/ Tick
    \/ \E payload_to \in Recipients, smtp_ok \in BOOLEAN, db_ok \in BOOLEAN :
          SendAlertEmail(payload_to, smtp_ok, db_ok)
    \/ \E enabled \in BOOLEAN, to \in {None} \cup {[value |-> r] : r \in Recipients},
          db_ok \in BOOLEAN :
          UpdateAlertsConfig(enabled, to, db_ok)

SpecEmail == EmailInit /\ [][EmailNext]_vars

\* a call made while alerts are disabled or no recipient is known sends nothing
\* and returns False
C30_Gate ==
    attempt # None /\ (~attempt.enabled \/ attempt.to_addr = "") =>
        ~attempt.smtp_called /\ ~attempt.returned

\* last_sent changes, in ALERTS_CFG and in the database, only in a call whose
\* SMTP send succeeded, and then to that call's time
C30_LastSent ==
    attempt # None =>
        /\ attempt.returned => attempt.smtp_called /\ alerts_cfg.last_sent = attempt.now
        /\ ~attempt.returned =>
              /\ alerts_cfg.last_sent = attempt.last_before
              /\ persisted.last_sent = attempt.persisted_before
        /\ persisted.last_sent \in {attempt.persisted_before, alerts_cfg.last_sent}

\* C30 as stated: send_alert_email sends nothing and returns False while alerts
\* are disabled or no recipient is known; any two sends that return True are at
\* least EMAIL_RATE_LIMIT_SECONDS apart on the event loop's clock; a failed or
\* rate-limited attempt leaves last_sent unchanged.
C30_SendsApart ==
    /\ C30_Gate
    /\ C30_LastSent
    /\ Len(sends) = 2 => sends[2] - sends[1] >= mail_config.rate_limit * TicksPerSecond

\* C30: send_alert_email sends nothing and returns False while alerts are
\* disabled or no recipient is known; the whole-second times of any two sends
\* that return True differ by at least EMAIL_RATE_LIMIT_SECONDS, so the sends are
\* more than EMAIL_RATE_LIMIT_SECONDS - 1 seconds apart; last_sent changes only
\* when the SMTP send succeeds.
C30_SendsApartInWholeSeconds ==
    /\ C30_Gate
    /\ C30_LastSent
    /\ Len(sends) = 2 =>
          /\ NowSeconds(sends[2]) - NowSeconds(sends[1]) >= mail_config.rate_limit
          /\ sends[2] - sends[1] > (mail_config.rate_limit - 1) * TicksPerSecond

\* two sends returned True less than EMAIL_RATE_LIMIT_SECONDS apart, and a later
\* call was rate-limited
C30_Witness ==
    /\ Len(sends) = 2
    /\ sends[2] - sends[1] < mail_config.rate_limit * TicksPerSecond
    /\ attempt # None /\ attempt.enabled /\ attempt.to_addr # ""
    /\ ~attempt.smtp_called

====
